---- MODULE Spec2Model ----
(***************************************************************************)
(* Model of the streaming scanner of ahds/grammar.py: format detection,    *)
(* header boundary detection (get_header) and the HyperSurface stream      *)
(* walker (parse_hypersurface_data).                                       *)
(*                                                                         *)
(* Bytes are one-character strings, a byte string is a sequence of them.   *)
(* Offsets are 0-based as in Python: the byte at offset p of d is d[p+1].  *)
(***************************************************************************)
EXTENDS Integers, Sequences, FiniteSets, TLC

VARIABLES
    source,        \* the bytes of the file behind fhnd
    fpos,          \* fhnd.tell()
    reads,         \* log of fhnd.read calls: <<requested, returned>> pairs
    header_bytes,  \* get_header's chunk size
    file_format,   \* detect_format's verdict
    data,          \* get_header's accumulated buffer
    m,             \* start offset of the delimiter match, NoneInt for None
    searches,      \* log of the start offsets handed to stream_delimiter.search
    pc,            \* position in get_header
    result,        \* what get_header returned
    run,           \* which call of get_header on this file is running
    prev,          \* what the previous call returned
    stream_bytes,  \* parse_hypersurface_data's chunk size
    data_format,   \* designation format of the parsed header: BINARY or ASCII
    gen,           \* where iter_hypersurface_stream is suspended
    stream_data,   \* the buffer the iterator yielded last
    w,             \* the walker's locals and the lists it appends to
    col,           \* the locals of collect_hypersurface_ascii_stream
    wpc,           \* position in parse_hypersurface_data
    wrun,          \* which call of parse_hypersurface_data is running
    wprev,         \* what the previous call left in the parsed header
    parsed_data,   \* the parsed header: its sections and their entries
    parsed_given,  \* the parsed header as it was handed to the walker
    payloads,      \* the binary streams of an AmiraMesh file, as written
    residual,      \* the bytes a call of next_amiramesh_binary_stream left over
    loaded         \* what the calls of next_amiramesh_binary_stream returned

\* the file handle; get_header's state; the walker's state; the state of
\* the loader of AmiraMesh binary streams
fvars == <<source, fpos, reads>>
gvars == <<header_bytes, file_format, data, m, searches, pc, result, run, prev>>
wvars == <<stream_bytes, data_format, gen, stream_data, w, col, wpc, wrun, wprev,
           parsed_data, parsed_given>>
avars == <<payloads, residual, loaded>>
hvars == <<fvars, gvars, wvars, avars>>

NoneInt == -1

(***************************************************************************)
(* Character classes of the bytes patterns                                 *)
(***************************************************************************)
Space  == {" ", "\n", "\t"}
Digits == {"0", "1", "2", "3", "4", "5", "6", "7", "8", "9"}

Min(a, b) == IF a < b THEN a ELSE b
Max(a, b) == IF a > b THEN a ELSE b

\* d[a:b] of Python, for 0 <= a
Slice(d, a, b) == SubSeq(d, a + 1, Min(b, Len(d)))

\* offset of the first byte at or after p that is not whitespace (\s*)
SkipWs(d, p) ==
    IF p >= Len(d) THEN p
    ELSE CHOOSE q \in p..Len(d) :
             /\ \A i \in (p + 1)..q : d[i] \in Space
             /\ q = Len(d) \/ d[q + 1] \notin Space

\* offset after the run of digits that starts at p (\d*)
DigitsEnd(d, p) ==
    IF p >= Len(d) THEN p
    ELSE CHOOSE q \in p..Len(d) :
             /\ \A i \in (p + 1)..q : d[i] \in Digits
             /\ q = Len(d) \/ d[q + 1] \notin Digits

\* offset after the run of bytes other than newline and '{' that starts at p
TokenEnd(d, p) ==
    IF p >= Len(d) THEN p
    ELSE CHOOSE q \in p..Len(d) :
             /\ \A i \in (p + 1)..q : d[i] \notin {"\n", "{"}
             /\ q = Len(d) \/ d[q + 1] \in {"\n", "{"}

\* offset after the last newline of d[a:b], NoneInt when it holds none
LastNlEnd(d, a, b) ==
    IF \E i \in (a + 1)..b : d[i] = "\n"
    THEN CHOOSE i \in (a + 1)..b :
             d[i] = "\n" /\ \A j \in (i + 1)..b : d[j] # "\n"
    ELSE NoneInt

\* int(digits)
RECURSIVE DigitsValue(_)
DigitsValue(ds) ==
    IF ds = <<>> THEN 0
    ELSE 10 * DigitsValue(SubSeq(ds, 1, Len(ds) - 1))
         + (CHOOSE v \in 0..9 :
                <<"0", "1", "2", "3", "4", "5", "6", "7", "8", "9">>[v + 1] = ds[Len(ds)])

HasAt(d, p, k) == p + Len(k) <= Len(d) /\ SubSeq(d, p + 1, p + Len(k)) = k

(***************************************************************************)
(* The stream table keys, in the order of the _hyper_surface_file dict     *)
(***************************************************************************)
K_AmiraMesh == <<"A","m","i","r","a","M","e","s","h">>
K_HyperSurface == <<"H","y","p","e","r","S","u","r","f","a","c","e">>
K_Vertices == <<"V","e","r","t","i","c","e","s">>
K_NBranchingPoints == <<"N","B","r","a","n","c","h","i","n","g","P","o","i","n","t","s">>
K_NVerticesOnCurves == <<"N","V","e","r","t","i","c","e","s","O","n","C","u","r","v","e","s">>
K_BoundaryCurves == <<"B","o","u","n","d","a","r","y","C","u","r","v","e","s">>
K_Patches == <<"P","a","t","c","h","e","s">>
K_InnerRegion == <<"I","n","n","e","r","R","e","g","i","o","n">>
K_OuterRegion == <<"O","u","t","e","r","R","e","g","i","o","n">>
K_Triangles == <<"T","r","i","a","n","g","l","e","s">>
K_BranchingPoints == <<"B","r","a","n","c","h","i","n","g","P","o","i","n","t","s">>
K_Surfaces == <<"S","u","r","f","a","c","e","s">>
K_Region == <<"R","e","g","i","o","n">>

hyper_surface_entities ==
    <<K_Vertices, K_NBranchingPoints, K_NVerticesOnCurves, K_BoundaryCurves,
      K_Patches, K_InnerRegion, K_OuterRegion, K_Triangles, K_BranchingPoints,
      K_Surfaces, K_Region>>

\* the first alternative of the key alternation that matches at p, <<>> for none
KeyAt(d, p) ==
    LET hits == {i \in 1..Len(hyper_surface_entities) :
                     HasAt(d, p, hyper_surface_entities[i])}
    IN  IF hits = {} THEN <<>>
        ELSE hyper_surface_entities[CHOOSE i \in hits : \A j \in hits : i <= j]

RECURSIVE MaxLen(_)
MaxLen(ks) ==
    IF ks = <<>> THEN 0 ELSE Max(Len(Head(ks)), MaxLen(Tail(ks)))

\* the overlap of the older grammar.py: the longest keyword and 16 bytes
rescan_overlap_Plus16 == MaxLen(hyper_surface_entities) + 16

\* ((max(len(key)) + 15) // 16) * 16
rescan_overlap == ((MaxLen(hyper_surface_entities) + 15) \div 16) * 16

(***************************************************************************)
(* _file_format_match = ^\s*#\s*(AmiraMesh|HyperSurface)(?:\s+|$)          *)
(***************************************************************************)
FormatMatch_OptionalHash(d) ==
    LET h == SkipWs(d, 0)
        t == IF h < Len(d) /\ d[h + 1] = "#" THEN SkipWs(d, h + 1) ELSE h
        Ends(e) == e = Len(d) \/ d[e + 1] \in Space
    IN  IF HasAt(d, t, K_AmiraMesh) /\ Ends(t + Len(K_AmiraMesh))
        THEN "AmiraMesh"
        ELSE IF HasAt(d, t, K_HyperSurface) /\ Ends(t + Len(K_HyperSurface))
             THEN "HyperSurface"
        ELSE "Undefined"

FormatMatch(d) ==
    LET h == SkipWs(d, 0)
        t == SkipWs(d, h + 1)
        Ends(e) == e = Len(d) \/ d[e + 1] \in Space
    IN  IF ~(h < Len(d) /\ d[h + 1] = "#") THEN "Undefined"
        ELSE IF HasAt(d, t, K_AmiraMesh) /\ Ends(t + Len(K_AmiraMesh))
             THEN "AmiraMesh"
        ELSE IF HasAt(d, t, K_HyperSurface) /\ Ends(t + Len(K_HyperSurface))
             THEN "HyperSurface"
        ELSE "Undefined"

(***************************************************************************)
(* Matches: s, e the span; stream the index or key; count, string the      *)
(* optional captures with the offsets where they end; group the capture of *)
(* the brace.  s = NoneInt stands for None.                                *)
(***************************************************************************)
NoMatch ==
    [s |-> NoneInt, e |-> NoneInt, stream |-> <<>>, count |-> <<>>,
     count_end |-> NoneInt, string |-> <<>>, string_end |-> NoneInt,
     group |-> FALSE]

\* the (?:^|\n) every stream delimiter starts with: ^ is the start of the
\* whole buffer, whatever the offset the search starts from
LineStartAt(d, s) == s = 0 \/ (s < Len(d) /\ d[s + 1] = "\n")

\* _stream_delimiters[0] = (?:^|\n)\s*@(?P<stream>\d+)\s*\n  matched at s
AmiraMatchAt(d, s) ==
    LET a  == SkipWs(d, s)
        de == DigitsEnd(d, a + 1)
        e  == LastNlEnd(d, de, SkipWs(d, de))
    IN  IF LineStartAt(d, s) /\ a < Len(d) /\ d[a + 1] = "@" /\ de > a + 1
           /\ e # NoneInt
        THEN [NoMatch EXCEPT !.s = s, !.e = e, !.stream = Slice(d, a + 1, de)]
        ELSE NoMatch

\* (?P<group>\s*(?:\n\s*)?\{\s*\n)?\s*\n  matched at p: <<end, group>>
RestAt(d, p) ==
    LET q  == SkipWs(d, p)
        r  == SkipWs(d, q + 1)
        ge == LastNlEnd(d, q + 1, r)
        pe == LastNlEnd(d, p, q)
    IN  IF q < Len(d) /\ d[q + 1] = "{" /\ ge # NoneInt
           /\ LastNlEnd(d, q + 1, ge - 1) # NoneInt
        THEN <<ge, TRUE>>
        ELSE <<pe, FALSE>>

\* (?:\s+(?:(?P<count>\d+)|(?P<string>(?:\w|[^\n{])+)))? and what follows,
\* the token starting at t, tried from the longest \s+ down to one byte
RECURSIVE TokenAt(_, _, _, _)
TokenAt(d, s, k, t) ==
    LET ce == DigitsEnd(d, t)
        se == TokenEnd(d, t)
        rc == RestAt(d, ce)
        rs == RestAt(d, se)
        rn == RestAt(d, k)
    IN  IF t <= k
        THEN IF rn[1] # NoneInt
             THEN [NoMatch EXCEPT !.s = s, !.e = rn[1], !.group = rn[2]]
             ELSE NoMatch
        ELSE IF ce > t /\ rc[1] # NoneInt
        THEN [NoMatch EXCEPT !.s = s, !.e = rc[1], !.group = rc[2],
                             !.count = Slice(d, t, ce), !.count_end = ce]
        ELSE IF se > t /\ rs[1] # NoneInt
        THEN [NoMatch EXCEPT !.s = s, !.e = rs[1], !.group = rs[2],
                             !.string = Slice(d, t, se), !.string_end = se]
        ELSE TokenAt(d, s, k, t - 1)

\* _stream_delimiters[1] matched at s
HyperMatchAt(d, s) ==
    LET a   == SkipWs(d, s)
        key == KeyAt(d, a)
        k   == a + Len(key)
        tm  == TokenAt(d, s, k, SkipWs(d, k))
    IN  IF LineStartAt(d, s) /\ key # <<>> /\ tm.s # NoneInt
        THEN [tm EXCEPT !.stream = key]
        ELSE NoMatch

MatchAt(delim, d, s) ==
    IF delim = 0 THEN AmiraMatchAt(d, s) ELSE HyperMatchAt(d, s)

\* pattern.search(d, from): the leftmost match at or after from; a negative
\* from counts as 0
SearchUp(delim, d, s) ==
    LET Hit(p) == LineStartAt(d, p) /\ MatchAt(delim, d, p).s # NoneInt
    IN  IF \E p \in s..Len(d) : Hit(p)
        THEN MatchAt(delim, d, CHOOSE p \in s..Len(d) :
                                   Hit(p) /\ \A q \in s..(p - 1) : ~Hit(q))
        ELSE NoMatch

Search(delim, d, from) == SearchUp(delim, d, Max(from, 0))



(***************************************************************************)
(* _stream_delimiters[3], the end of an ASCII stream or a comment:         *)
(*   (?P<stop>\s*\}(?:(?:\s|\n)*\{)?\n|(?:keys))|#[^\n]*(?=\n|$)           *)
(* and _stream_delimiters[4], the closing brace                            *)
(***************************************************************************)
NoStop == [s |-> NoneInt, e |-> NoneInt, stop |-> FALSE]

\* offset of the next newline at or after p, the end of d when there is none
LineEnd(d, p) ==
    IF p >= Len(d) THEN p
    ELSE CHOOSE q \in p..Len(d) :
             /\ \A i \in (p + 1)..q : d[i] # "\n"
             /\ q = Len(d) \/ d[q + 1] = "\n"

StopMatchAt(d, s) ==
    LET q == SkipWs(d, s)
        r == SkipWs(d, q + 1)
        key == KeyAt(d, s)
    IN  IF q < Len(d) /\ d[q + 1] = "}"
           /\ r + 1 < Len(d) /\ d[r + 1] = "{" /\ d[r + 2] = "\n"
        THEN [s |-> s, e |-> r + 2, stop |-> TRUE]
        ELSE IF q + 1 < Len(d) /\ d[q + 1] = "}" /\ d[q + 2] = "\n"
        THEN [s |-> s, e |-> q + 2, stop |-> TRUE]
        ELSE IF key # <<>>
        THEN [s |-> s, e |-> s + Len(key), stop |-> TRUE]
        ELSE IF s < Len(d) /\ d[s + 1] = "#"
        THEN [s |-> s, e |-> LineEnd(d, s), stop |-> FALSE]
        ELSE NoStop

StopSearchUp(d, s) ==
    LET Hit(p) == StopMatchAt(d, p).s # NoneInt
    IN  IF \E p \in s..(Len(d) - 1) : Hit(p)
        THEN StopMatchAt(d, CHOOSE p \in s..(Len(d) - 1) :
                                Hit(p) /\ \A q \in s..(p - 1) : ~Hit(q))
        ELSE NoStop

StopSearch(d, from) == StopSearchUp(d, Max(from, 0))

\* _stream_delimiters[4].search(d, 0, upto) is not None
HasCloseBrace(d, upto) == \E i \in 1..Min(upto, Len(d)) : d[i] = "}"

(***************************************************************************)
(* _hyper_surface_file: per stream name the descriptors                    *)
(* [group, block name, item size, data type, optional], one per nesting    *)
(* level where the stream has two meanings                                 *)
(***************************************************************************)
group_array_declarations == "array_declarations"
group_boundaraycurve == "BoundaryCurve{}"
group_patch == "Patch{}"
group_surface == "Surface{}"

Info(g, b, i, t, o) ==
    [grp |-> g, block |-> b, itemsize |-> i, type |-> t, optional |-> o]

hyper_surface_file(key) ==
    CASE key = K_Vertices ->
            <<Info(group_array_declarations, "Coordinates", 3, "float", FALSE),
              Info(group_boundaraycurve, "Vertices", 1, "int", FALSE)>>
      [] key = K_NBranchingPoints ->
            <<Info(group_array_declarations, "NBranchingPoints", NoneInt, "int", TRUE)>>
      [] key = K_NVerticesOnCurves ->
            <<Info(group_array_declarations, "NVerticesOnCurves", NoneInt, "int", TRUE)>>
      [] key = K_BoundaryCurves ->
            <<Info(group_array_declarations, group_boundaraycurve, 1, "group", TRUE),
              Info(group_patch, "BoundaryCurves", 1, "int", TRUE)>>
      [] key = K_Patches ->
            <<Info(group_array_declarations, group_patch, 1, "group", FALSE),
              Info(group_surface, "Patches", 1, "int", FALSE)>>
      [] key = K_InnerRegion ->
            <<Info(group_patch, "InnerRegion", NoneInt, "char", FALSE)>>
      [] key = K_OuterRegion ->
            <<Info(group_patch, "OuterRegion", NoneInt, "char", FALSE)>>
      [] key = K_Triangles ->
            <<Info(group_patch, "Triangles", 3, "int", FALSE)>>
      [] key = K_BranchingPoints ->
            <<Info(group_patch, "BranchingPoints", 1, "int", TRUE)>>
      [] key = K_Surfaces ->
            <<Info(group_array_declarations, group_surface, 1, "group", TRUE)>>
      [] key = K_Region ->
            <<Info(group_surface, "Region", NoneInt, "char", FALSE)>>

\* _decode_string(stream_name)
KeyName(key) ==
    CASE key = K_Vertices -> "Vertices"
      [] key = K_NBranchingPoints -> "NBranchingPoints"
      [] key = K_NVerticesOnCurves -> "NVerticesOnCurves"
      [] key = K_BoundaryCurves -> "BoundaryCurves"
      [] key = K_Patches -> "Patches"
      [] key = K_InnerRegion -> "InnerRegion"
      [] key = K_OuterRegion -> "OuterRegion"
      [] key = K_Triangles -> "Triangles"
      [] key = K_BranchingPoints -> "BranchingPoints"
      [] key = K_Surfaces -> "Surfaces"
      [] key = K_Region -> "Region"

\* _type_sizes
type_sizes(t) ==
    CASE t \in {"byte", "char"} -> 1
      [] t = "short" -> 2
      [] t \in {"int", "float"} -> 4
      [] t \in {"long", "double"} -> 8

\* stream_info[group_level] where the stream has one descriptor per level
StreamInfo(key, level) ==
    IF Len(hyper_surface_file(key)) > 1
    THEN hyper_surface_file(key)[level + 1]
    ELSE hyper_surface_file(key)[1]

\* _decode_string of a byte string of the ASCII range: the same characters
DecodeString(b) == [i \in 1..Len(b) |-> b[i]]

(***************************************************************************)
(* What the walker appends.  A name is a base and the number formatted     *)
(* into its '{}' (0 for a plain name); the value of a stream is its bytes, *)
(* its count or its text token.                                            *)
(***************************************************************************)
Nm(base, n) == [base |-> base, n |-> n]

EncNone == [t |-> "none", b |-> <<>>, n |-> 0]
EncBytes(b) == [t |-> "bytes", b |-> b, n |-> 0]
\* a walker that keeps the count of a stream without item size as no value
EncInt_Dropped(n) == [t |-> "none", b |-> <<>>, n |-> 0]
EncInt(n) == [t |-> "int", b |-> <<>>, n |-> n]
\* the text of the string group; a marker without one has no text to decode
EncStr(b) == IF b = <<>> THEN EncNone ELSE [t |-> "str", b |-> DecodeString(b), n |-> 0]

GroupDecl(name, max) ==
    [kind |-> "group", array_name |-> Nm(name, 0), array_dimension |-> max + 1,
     array_parent |-> "", array_itemid |-> NoneInt, stream_data |-> EncNone,
     stream_type |-> ""]

ItemDecl(id, n, parent) ==
    [kind |-> "item", array_name |-> Nm(id, n), array_dimension |-> 0,
     array_parent |-> parent, array_itemid |-> n, stream_data |-> EncNone,
     stream_type |-> ""]

ArrayDecl(name, dim) ==
    [kind |-> "array", array_name |-> Nm(name, 0), array_dimension |-> dim,
     array_parent |-> "", array_itemid |-> NoneInt, stream_data |-> EncNone,
     stream_type |-> ""]

ValueDecl(name, enc, type) ==
    [kind |-> "value", array_name |-> Nm(name, 0), array_dimension |-> NoneInt,
     array_parent |-> "", array_itemid |-> NoneInt, stream_data |-> enc,
     stream_type |-> type]

DataDef(ref, info, offset, enc, shaped, shape) ==
    [array_reference |-> ref, data_name |-> info.block, data_index |-> -1,
     data_dimension |-> info.itemsize, data_type |-> info.type,
     stream_offset |-> offset, stream_data |-> enc,
     has_shape |-> shaped, data_shape |-> shape]

\* the locals of parse_hypersurface_data at its first iteration
WalkerLocals(buffer) ==
    [given |-> buffer,
     remaining_bytes |-> buffer,
     force_expand |-> Len(buffer) < rescan_overlap,
     continue_scanning_at |-> 0,
     group_level |-> 0,
     item_count |-> 1,
     group_name |-> "",
     array_name |-> Nm("", 0),
     array_id |-> "unbound",
     max_items |-> 0,
     array_declarations |-> <<>>,
     data_definitions |-> <<>>,
     error |-> "",
     warnings |-> 0,
     pending |-> [name |-> "", info |-> Info("", "", NoneInt, "", FALSE),
                  num_items |-> NoneInt, stream_offset |-> NoneInt]]

NoCollect ==
    [stream_data |-> <<>>, at_end_of_file |-> <<>>, continue_scanning_at |-> 0,
     next_stream |-> NoStop]

NoOutcome == [array_declarations |-> <<>>, data_definitions |-> <<>>, error |-> "none"]

WalkerIdle ==
    /\ stream_bytes = 0
    /\ data_format = ""
    /\ gen = "done"
    /\ stream_data = <<>>
    /\ w = WalkerLocals(<<>>)
    /\ col = NoCollect
    /\ wpc = "idle"
    /\ wrun = 0
    /\ wprev = NoOutcome
    /\ parsed_data = <<>>
    /\ parsed_given = <<>>

AmiraIdle ==
    /\ payloads = <<>>
    /\ residual = <<>>
    /\ loaded = <<>>

(***************************************************************************)
(* The file behind fhnd                                                    *)
(***************************************************************************)
\* fhnd.read(n) at position p: the next n bytes, fewer at the end of file
FileRead(src, p, n) == SubSeq(src, p + 1, Min(p + n, Len(src)))

(***************************************************************************)
(* Files the header scanner is run on: a designation line, header lines,   *)
(* a first stream marker and what follows it                               *)
(***************************************************************************)
MaxFill   == 2     \* header lines end within MaxFill bytes of the first read
MaxIndent == 34    \* longest whitespace run inside a marker
BigChunk  == 120   \* a header_bytes that takes every file in one read
SmallChunk == 7    \* a header_bytes below the rescan overlap

Rep(c, n) == [i \in 1..n |-> c]

format_bytes_min == 50

Designations ==
    { <<"#", " ">> \o K_AmiraMesh,
      <<"#", " ">> \o K_HyperSurface,
      <<" ", "#">> \o K_AmiraMesh \o <<" ", "2">>,
      K_AmiraMesh \o <<" ", "2">>,
      <<"#", " ">> \o K_AmiraMesh \o <<"X">>,
      <<"x", "#", " ">> \o K_HyperSurface,
      Rep(" ", format_bytes_min - 10) \o <<"#">> \o K_AmiraMesh \o <<"X">> }

Fills == {0} \cup {format_bytes_min - 18 + i : i \in 0..MaxFill}

HeaderLines == { IF n = 0 THEN <<>> ELSE <<"\n">> \o Rep("x", n) : n \in Fills }

Indents == {0, 1, MaxIndent}

AmiraMarkers ==
    { <<"\n">> \o Rep(" ", n) \o <<"@", "1", "\n">> : n \in Indents }
    \cup { <<"\n", "@", "1", "2">> \o Rep(" ", n) \o <<"\n">> : n \in Indents }
    \cup { <<"\n">> \o Rep("\n", n) \o <<"@", "1", "\n">> : n \in Indents }

HyperMarkers ==
    { <<"\n">> \o Rep(" ", n) \o K_Vertices \o <<" ", "3", "\n">> : n \in Indents }
    \cup { <<"\n">> \o K_Patches \o <<" ">> \o Rep("1", n + 1) \o <<"\n", "{", "\n">> :
             n \in Indents }
    \cup { <<"\n">> \o K_InnerRegion \o <<" ">> \o Rep("A", n + 1) \o <<"\n">> :
             n \in Indents }

\* a file without any marker, and the marked ones
Markers == {<<>>} \cup AmiraMarkers \cup HyperMarkers

Payloads == { <<>>, <<"a", "\n", "@", "2", "\n">> \o K_Region \o <<" ", "B", "\n">> }

HeaderSources ==
    { d \o h \o mk \o p :
        d \in Designations, h \in HeaderLines, mk \in Markers, p \in Payloads }

HeaderBytesChoices == {1, SmallChunk, format_bytes_min, BigChunk}

(***************************************************************************)
(* get_header                                                              *)
(***************************************************************************)
\* the stream delimiter get_header selects: index into _stream_delimiters
DelimiterOf(ff) == IF ff = "AmiraMesh" THEN 0 ELSE 1

\* format_bytes = header_bytes if header_bytes >= _rescan_overlap else _rescan_overlap
FormatBytesArg(hb) == IF hb >= rescan_overlap THEN hb ELSE rescan_overlap

\* format_bytes if format_bytes > 50 else 50
SniffSize_AsAsked(fb) == fb
SniffSize(fb) == IF fb > format_bytes_min THEN fb ELSE format_bytes_min

\* a scanner that keeps no overlap of the bytes searched before
ChunkLen_NoOverlap(d) == Len(d)

\* _chunklen = len(data) - _rescan_overlap
ChunkLen(d) == Len(d) - rescan_overlap

\* elif file_format == "Undefined": raise ValueError
IsUndefined_NeverRaised(ff) == FALSE
IsUndefined(ff) == ff = "Undefined"

\* data[:m.start()] and data[m.start():]
HeaderPart_PastStart(d, ms) == Slice(d, 0, ms + 1)
HeaderPart(d, ms) == Slice(d, 0, ms)
RemainderPart_AfterNewline(d, ms) == Slice(d, ms + 1, Len(d))
RemainderPart(d, ms) == Slice(d, ms, Len(d))

\* the header returned at the end of a file without delimiter: all of data
WholeHeader_Scanned(d) == Slice(d, 0, Max(ChunkLen(d), 0))
WholeHeader(d) == d

NoResult ==
    [status |-> "none", format |-> "", header |-> <<>>, remainder |-> <<>>,
     found |-> FALSE]

HeaderInit ==
    /\ source \in HeaderSources
    /\ header_bytes \in HeaderBytesChoices
    /\ fpos = 0
    /\ reads = <<>>
    /\ file_format = ""
    /\ data = <<>>
    /\ m = NoneInt
    /\ searches = <<>>
    /\ pc = "open"
    /\ result = NoResult
    /\ run = 1
    /\ prev = NoResult
    /\ WalkerIdle
    /\ AmiraIdle

\* get_header(fn): open the file and scan it through the handle
OpenFile ==
    /\ pc = "open"
    /\ fpos' = 0
    /\ reads' = <<>>
    /\ searches' = <<>>
    /\ pc' = "detect"
    /\ UNCHANGED <<source, header_bytes, file_format, data, m, result, run, prev>>
    /\ UNCHANGED <<wvars, avars>>

\* detect_format that appends to a buffer kept from the call before
DetectFormat_StaleBuffer ==
    /\ pc = "detect"
    /\ LET req == SniffSize(FormatBytesArg(header_bytes))
           rough_header == FileRead(source, fpos, req)
       IN  /\ reads' = Append(reads, <<req, Len(rough_header)>>)
           /\ fpos' = fpos + Len(rough_header)
           /\ file_format' = FormatMatch(data \o rough_header)
           /\ data' = data \o rough_header
    /\ pc' = "select"
    /\ UNCHANGED <<source, header_bytes, m, searches, result, run, prev>>
    /\ UNCHANGED <<wvars, avars>>

\* detect_format(fhnd, format_bytes): one read, matched against the format pattern
DetectFormat ==
    /\ pc = "detect"
    /\ LET req == SniffSize(FormatBytesArg(header_bytes))
           rough_header == FileRead(source, fpos, req)
       IN  /\ reads' = Append(reads, <<req, Len(rough_header)>>)
           /\ fpos' = fpos + Len(rough_header)
           /\ file_format' = FormatMatch(rough_header)
           /\ data' = rough_header
    /\ pc' = "select"
    /\ UNCHANGED <<source, header_bytes, m, searches, result, run, prev>>
    /\ UNCHANGED <<wvars, avars>>

\* the format decides the delimiter; an undefined format is an error
RaiseUndefined ==
    /\ pc = "select"
    /\ IsUndefined(file_format)
    /\ result' = [NoResult EXCEPT !.status = "ValueError"]
    /\ pc' = "error"
    /\ UNCHANGED <<source, fpos, reads, header_bytes, file_format, data, m,
                   searches, run, prev>>
    /\ UNCHANGED <<wvars, avars>>

\* m = stream_delimiter.search(data)
FirstSearch ==
    /\ pc = "select"
    /\ ~IsUndefined(file_format)
    /\ m' = Search(DelimiterOf(file_format), data, 0).s
    /\ searches' = Append(searches, 0)
    /\ pc' = "scan"
    /\ UNCHANGED <<source, fpos, reads, header_bytes, file_format, data, result,
                   run, prev>>
    /\ UNCHANGED <<wvars, avars>>

\* one pass of "while m is None": read header_bytes more and search the tail
ScanMore ==
    /\ pc = "scan"
    /\ m = NoneInt
    /\ LET chunklen == ChunkLen(data)
           more_header_data == FileRead(source, fpos, header_bytes)
       IN  /\ reads' = Append(reads, <<header_bytes, Len(more_header_data)>>)
           /\ fpos' = fpos + Len(more_header_data)
           /\ IF more_header_data = <<>>
              THEN /\ result' = [status |-> "ok", format |-> file_format,
                                 header |-> DecodeString(WholeHeader(data)),
                                 remainder |-> <<>>, found |-> FALSE]
                   /\ pc' = "done"
                   /\ UNCHANGED <<data, m, searches>>
              ELSE /\ data' = data \o more_header_data
                   /\ m' = Search(DelimiterOf(file_format), data', chunklen).s
                   /\ searches' = Append(searches, chunklen)
                   /\ UNCHANGED <<result, pc>>
    /\ UNCHANGED <<source, header_bytes, file_format, run, prev>>
    /\ UNCHANGED <<wvars, avars>>

\* return file_format, data[:m.start()], data[m.start():]
ReturnHeader ==
    /\ pc = "scan"
    /\ m # NoneInt
    /\ result' = [status |-> "ok", format |-> file_format,
                  header |-> DecodeString(HeaderPart(data, m)),
                  remainder |-> RemainderPart(data, m), found |-> TRUE]
    /\ pc' = "done"
    /\ UNCHANGED <<source, fpos, reads, header_bytes, file_format, data, m,
                   searches, run, prev>>
    /\ UNCHANGED <<wvars, avars>>

\* the caller scans the same file a second time
CallAgain ==
    /\ pc \in {"done", "error"}
    /\ run = 1
    /\ run' = 2
    /\ prev' = result
    /\ result' = NoResult
    /\ m' = NoneInt
    /\ pc' = "open"
    /\ UNCHANGED <<source, fpos, reads, header_bytes, file_format, data, searches>>
    /\ UNCHANGED <<wvars, avars>>

HeaderNext ==
    \/ OpenFile
    \/ DetectFormat
    \/ RaiseUndefined
    \/ FirstSearch
    \/ ScanMore
    \/ ReturnHeader
    \/ CallAgain

HeaderSpec == HeaderInit /\ [][HeaderNext]_hvars


(***************************************************************************)
(* parse_hypersurface_data: the walker over the stream section of a        *)
(* HyperSurface file                                                       *)
(***************************************************************************)
Raise(loc, what) == [loc EXCEPT !.error = what]

\* the messages raised as AHDSStreamError; the walker's other failure is the
\* UnboundLocalError of reading array_id before any group has bound it
AHDSStreamError ==
    {"not valid HyperSurface data", "items missing", "sub groups not supported",
     "item count not readable", "group is mandatory", "no number of items",
     "stream not expected on group"}

\* data_format[:6] == "BINARY"
IsBinary(f) == f \in {"BINARY", "BINARY-LITTLE-ENDIAN"}

\* a generator that reads only when the buffer is short
IterResume_NoForce(g, loc, src, p, sb) ==
    LET rb == loc.remaining_bytes
        at_end_of_file == FileRead(src, p, sb)
    IN  IF g = "tail"
        THEN [gen |-> "done", buffer |-> rb, read |-> <<>>, force |-> loc.force_expand]
        ELSE IF Len(rb) < rescan_overlap
        THEN IF at_end_of_file = <<>>
             THEN [gen |-> IF rb # <<>> THEN "tail" ELSE "done", buffer |-> rb,
                   read |-> <<<<sb, 0>>>>, force |-> loc.force_expand]
             ELSE [gen |-> "run", buffer |-> rb \o at_end_of_file,
                   read |-> <<<<sb, Len(at_end_of_file)>>>>, force |-> FALSE]
        ELSE [gen |-> "run", buffer |-> rb, read |-> <<>>, force |-> FALSE]

\* a generator that returns on the first empty read whatever is left in
\* the buffer
IterResume_NoTail(g, loc, src, p, sb) ==
    LET rb == loc.remaining_bytes
        at_end_of_file == FileRead(src, p, sb)
    IN  IF g = "tail"
        THEN [gen |-> "done", buffer |-> rb, read |-> <<>>, force |-> loc.force_expand]
        ELSE IF Len(rb) < rescan_overlap \/ loc.force_expand
        THEN IF at_end_of_file = <<>>
             THEN [gen |-> "done", buffer |-> rb,
                   read |-> <<<<sb, 0>>>>, force |-> loc.force_expand]
             ELSE [gen |-> "run", buffer |-> rb \o at_end_of_file,
                   read |-> <<<<sb, Len(at_end_of_file)>>>>, force |-> FALSE]
        ELSE [gen |-> "run", buffer |-> rb, read |-> <<>>, force |-> FALSE]

\* next(iter_hypersurface_stream()): resumed after the tail was yielded the
\* generator returns; otherwise it reads when the buffer is shorter than the
\* overlap or a read was forced, and yields the buffer
IterResume(g, loc, src, p, sb) ==
    LET rb == loc.remaining_bytes
        at_end_of_file == FileRead(src, p, sb)
    IN  IF g = "tail"
        THEN [gen |-> "done", buffer |-> rb, read |-> <<>>, force |-> loc.force_expand]
        ELSE IF Len(rb) < rescan_overlap \/ loc.force_expand
        THEN IF at_end_of_file = <<>>
             THEN [gen |-> IF rb # <<>> THEN "tail" ELSE "done", buffer |-> rb,
                   read |-> <<<<sb, 0>>>>, force |-> loc.force_expand]
             ELSE [gen |-> "run", buffer |-> rb \o at_end_of_file,
                   read |-> <<<<sb, Len(at_end_of_file)>>>>, force |-> FALSE]
        ELSE [gen |-> "run", buffer |-> rb, read |-> <<>>, force |-> FALSE]

\* a walker that opens the next item under the name of the one just closed
CloseItem_SameName(loc, sd, ns) ==
    IF HasCloseBrace(sd, ns.s) /\ loc.group_level > 0
    THEN IF loc.item_count + 1 > loc.max_items
         THEN [loc EXCEPT !.group_level = @ - 1, !.item_count = 0, !.max_items = 0]
         ELSE [loc EXCEPT !.item_count = @ + 1,
                          !.array_declarations =
                              Append(@, ItemDecl(loc.array_id, loc.item_count + 1,
                                                 loc.group_name))]
    ELSE loc

\* a walker that leaves a group with the counters as they are
CloseItem_NoReset(loc, sd, ns) ==
    IF HasCloseBrace(sd, ns.s) /\ loc.group_level > 0
    THEN IF loc.item_count + 1 > loc.max_items
         THEN [loc EXCEPT !.group_level = @ - 1]
         ELSE [loc EXCEPT !.item_count = @ + 1,
                          !.array_name = Nm(loc.array_id, loc.item_count + 1),
                          !.array_declarations =
                              Append(@, ItemDecl(loc.array_id, loc.item_count + 1,
                                                 loc.group_name))]
    ELSE loc

\* lines 388-407: a closing brace before the marker ends the open item
CloseItem(loc, sd, ns) ==
    IF HasCloseBrace(sd, ns.s) /\ loc.group_level > 0
    THEN IF loc.item_count + 1 > loc.max_items
         THEN [loc EXCEPT !.group_level = @ - 1, !.item_count = 0, !.max_items = 0]
         ELSE [loc EXCEPT !.item_count = @ + 1,
                          !.array_name = Nm(loc.array_id, loc.item_count + 1),
                          !.array_declarations =
                              Append(@, ItemDecl(loc.array_id, loc.item_count + 1,
                                                 loc.group_name))]
    ELSE loc

\* line 431, 'num_items is None': the count group took part in the match
CountReadable_Always(ns) == TRUE
CountReadable(ns) == ns.count # <<>>

\* a walker that opens a group inside an open group one level deeper
OpenGroup_Nested(loc, rest, ns, info, name) ==
    [loc EXCEPT !.max_items = DigitsValue(ns.count), !.group_level = @ + 1,
                !.group_name = name, !.array_id = info.block, !.item_count = 1,
                !.array_name = Nm(info.block, 1),
                !.remaining_bytes = rest, !.continue_scanning_at = 0]

\* lines 426-461: a marker whose descriptor is a group
OpenGroup(loc, rest, ns, info, name) ==
    LET max == DigitsValue(ns.count) IN
    IF loc.max_items - loc.item_count > 0 THEN Raise(loc, "items missing")
    ELSE IF loc.group_level > 0 \/ info.grp # group_array_declarations
    THEN Raise(loc, "sub groups not supported")
    ELSE IF ~CountReadable(ns) THEN Raise(loc, "item count not readable")
    ELSE IF max > 0
    THEN [loc EXCEPT !.max_items = max, !.group_level = 1, !.group_name = name,
                     !.array_id = info.block, !.item_count = 1,
                     !.array_name = Nm(info.block, 1),
                     !.array_declarations =
                         @ \o <<GroupDecl(name, max), ItemDecl(info.block, 1, name)>>,
                     !.remaining_bytes = rest, !.continue_scanning_at = 0]
    ELSE IF ~info.optional
    THEN Raise([loc EXCEPT !.max_items = max], "group is mandatory")
    ELSE [loc EXCEPT !.max_items = max, !.remaining_bytes = rest,
                     !.continue_scanning_at = 0]

\* lines 481-526: what a data stream appends (num_items is NoneInt for None)
Emit(loc, name, info, num_items, offset, enc) ==
    LET l == [loc EXCEPT !.continue_scanning_at = 0] IN
    IF name = "Vertices" /\ l.group_level = 0
    THEN [l EXCEPT !.array_declarations = Append(@, ArrayDecl(name, num_items)),
                   !.data_definitions =
                       Append(@, DataDef(Nm(name, 0), info, offset, enc, FALSE, NoneInt))]
    ELSE IF name # "Vertices" /\ l.group_level = 0 /\ num_items = NoneInt
    THEN [l EXCEPT !.array_declarations =
                       Append(@, ValueDecl(info.block, enc, info.type))]
    ELSE IF l.array_id = "unbound" THEN Raise(l, "UnboundLocalError")
    ELSE IF l.array_id # info.grp THEN Raise(l, "stream not expected on group")
    ELSE [l EXCEPT !.data_definitions =
                       Append(@, DataDef(l.array_name, info, offset, enc, TRUE, num_items))]

\* readbytes(fhnd, count, stream_data): <<data, remaining, bytes asked of the file>>
readbytes(src, p, count, sd) ==
    LET missing_bytes == count - Len(sd)
        at_end_of_file == FileRead(src, p, missing_bytes)
    IN  IF missing_bytes < 1
        THEN [data |-> Slice(sd, 0, count), rest |-> Slice(sd, count, Len(sd)),
              read |-> <<>>]
        ELSE [data |-> sd \o at_end_of_file, rest |-> <<>>,
              read |-> <<<<missing_bytes, Len(at_end_of_file)>>>>]

\* bytes taken from the file by a list of reads
\* a handle whose position stays where it is, so that bytes are read again
Taken_Nothing(rd) == 0
Taken(rd) == IF rd = <<>> THEN 0 ELSE rd[1][2]

\* a collector that reads on from an empty buffer without a warning
CollectEnter_Silent(src, p, sb, sd) ==
    LET ask == IF sb > rescan_overlap THEN sb ELSE rescan_overlap IN
    IF sd = <<>>
    THEN [col |-> [NoCollect EXCEPT !.at_end_of_file = FileRead(src, p, ask)],
          read |-> <<<<ask, Len(FileRead(src, p, ask))>>>>, warned |-> 0]
    ELSE [col |-> [NoCollect EXCEPT !.at_end_of_file = sd], read |-> <<>>, warned |-> 0]

\* collect_hypersurface_ascii_stream up to its loop (lines 265-271)
CollectEnter(src, p, sb, sd) ==
    LET ask == IF sb > rescan_overlap THEN sb ELSE rescan_overlap IN
    IF sd = <<>>
    THEN [col |-> [NoCollect EXCEPT !.at_end_of_file = FileRead(src, p, ask)],
          read |-> <<<<ask, Len(FileRead(src, p, ask))>>>>, warned |-> 1]
    ELSE [col |-> [NoCollect EXCEPT !.at_end_of_file = sd], read |-> <<>>, warned |-> 0]

\* one turn of the loop of collect_hypersurface_ascii_stream (lines 272-296),
\* ns being the search of line 274, or its exit at line 299 when nothing
\* more was read
CollectTurn(c, ns, src, p, sb) ==
    LET sd == c.stream_data \o c.at_end_of_file
        more == FileRead(src, p, sb)
        asked == <<<<sb, Len(more)>>>>
        after == Slice(sd, ns.e, Len(sd))
        before == Slice(sd, 0, ns.s)
    IN  IF c.at_end_of_file = <<>>
        THEN [returned |-> TRUE, warned |-> 1, read |-> <<>>, col |-> c,
              data |-> IF c.next_stream.s # NoneInt
                       THEN Slice(c.stream_data, 0, c.next_stream.s)
                       ELSE c.stream_data,
              rest |-> <<>>]
        ELSE IF ns.s = NoneInt
        THEN [returned |-> FALSE, warned |-> 0, read |-> asked, data |-> <<>>, rest |-> <<>>,
              col |-> [stream_data |-> sd, at_end_of_file |-> more,
                       continue_scanning_at |-> Len(sd) - rescan_overlap,
                       next_stream |-> ns]]
        ELSE IF ~ns.stop /\ ns.e >= Len(sd)
        THEN [returned |-> FALSE, warned |-> 0, read |-> asked, data |-> <<>>, rest |-> <<>>,
              col |-> [stream_data |-> sd, at_end_of_file |-> more,
                       continue_scanning_at |-> ns.s, next_stream |-> ns]]
        ELSE IF ~ns.stop /\ Len(after) < rescan_overlap
        THEN [returned |-> FALSE, warned |-> 0, read |-> asked, data |-> <<>>, rest |-> <<>>,
              col |-> [stream_data |-> before \o after, at_end_of_file |-> more,
                       continue_scanning_at |-> ns.s, next_stream |-> ns]]
        ELSE IF ~ns.stop
        THEN [returned |-> FALSE, warned |-> 0, read |-> <<>>, data |-> <<>>, rest |-> <<>>,
              col |-> [stream_data |-> before, at_end_of_file |-> after,
                       continue_scanning_at |-> ns.s, next_stream |-> ns]]
        ELSE [returned |-> TRUE, warned |-> 0, read |-> <<>>, col |-> c,
              data |-> before, rest |-> Slice(sd, ns.s, Len(sd))]

(***************************************************************************)
(* Stream sections the walker is run on.  Each begins at the line break    *)
(* before its first marker, as the remainder get_header hands over does.   *)
(***************************************************************************)
MidChunk == 40     \* a stream_bytes above the rescan overlap, below a section
PreRead  == 40     \* bytes of the section already read when the walker starts

Line(key, val) == key \o <<" ">> \o val \o <<"\n">>
AsciiTriple == <<"1", " ", "2", " ", "3">>
BinaryTriple == Rep("x", 12)

VerticesOf(payload) == Line(K_Vertices, <<"1">>) \o payload \o <<"\n">>

PatchOf(payload) ==
    <<"{", "\n">> \o Line(K_InnerRegion, <<"A">>) \o Line(K_OuterRegion, <<"B">>)
    \o Line(K_Triangles, <<"1">>) \o payload \o <<"\n", "}", "\n">>

SurfaceAscii ==
    Line(K_Surfaces, <<"1">>) \o <<"{", "\n">> \o Line(K_Region, <<"A">>)
    \o Line(K_Patches, <<"1">>) \o <<"1", "\n", "}", "\n">>

WellFormedSources ==
    { <<"\n">> \o VerticesOf(AsciiTriple) \o Line(K_NBranchingPoints, <<"0">>)
         \o Line(K_Patches, <<"1">>) \o PatchOf(AsciiTriple),
      <<"\n">> \o Line(K_Patches, <<"2">>) \o PatchOf(AsciiTriple)
         \o PatchOf(AsciiTriple \o <<" ", "#", "c">>),
      <<"\n">> \o VerticesOf(AsciiTriple) \o SurfaceAscii,
      <<"\n">> \o SurfaceAscii }

\* the second payload begins with a byte that is a newline
BinarySources ==
    { <<"\n">> \o VerticesOf(BinaryTriple) \o Line(K_Patches, <<"1">>)
         \o PatchOf(BinaryTriple),
      <<"\n">> \o VerticesOf(<<"\n">> \o Rep("x", 11))
         \o Line(K_NBranchingPoints, <<"0">>) }

MalformedSources ==
    { <<"\n">> \o Line(K_Patches, <<"2">>) \o PatchOf(AsciiTriple) \o SurfaceAscii,
      <<"\n">> \o Line(K_Patches, <<"0">>),
      <<"\n">> \o Line(K_Triangles, <<"1">>) \o AsciiTriple \o <<"\n", "}", "\n">>,
      <<"\n">> \o VerticesOf(AsciiTriple) \o Line(K_Surfaces, <<"1">>) \o <<"{", "\n">>
         \o Line(K_Triangles, <<"1">>) \o AsciiTriple \o <<"\n", "}", "\n">>,
      <<"\n">> \o Line(K_Vertices, <<"A">>) }

SurfaceItem(region) == <<"{", "\n">> \o Line(K_Region, region) \o <<"}", "\n">>

\* sections whose only group is complete: as many items as it declares
CompleteGroupSources ==
    { <<"\n">> \o Line(K_Surfaces, <<"2">>) \o SurfaceItem(<<"A">>) \o SurfaceItem(<<"B">>),
      <<"\n">> \o Line(K_Patches, <<"2">>) \o PatchOf(AsciiTriple) \o PatchOf(AsciiTriple),
      <<"\n">> \o Line(K_Patches, <<"1">>) \o PatchOf(AsciiTriple) }

\* a group one item short, followed by the end of the section
ShortGroupSources ==
    { <<"\n">> \o Line(K_Patches, <<"2">>) \o PatchOf(AsciiTriple) }

\* a group one item short, followed by another group marker
ShortThenGroupSources ==
    { <<"\n">> \o Line(K_Patches, <<"2">>) \o PatchOf(AsciiTriple) \o SurfaceAscii }

\* a group with its one item, followed by another group
SuccessiveGroupSources ==
    { <<"\n">> \o Line(K_Patches, <<"1">>) \o PatchOf(AsciiTriple) \o SurfaceAscii }

\* sections with a group marker of count 0
MandatoryEmptySources ==
    { <<"\n">> \o Line(K_Patches, <<"0">>),
      <<"\n">> \o Line(K_NBranchingPoints, <<"0">>)
         \o Line(K_NVerticesOnCurves, <<"0">>) \o Line(K_Patches, <<"0">>) }

OptionalEmptySources ==
    { <<"\n">> \o Line(K_Surfaces, <<"0">>) \o Line(K_BoundaryCurves, <<"0">>)
         \o Line(K_NBranchingPoints, <<"0">>) }

\* a group marker without a count, and with a token that is no number
UncountedGroupSources ==
    { <<"\n">> \o K_Patches \o <<"\n">> \o PatchOf(AsciiTriple),
      <<"\n">> \o Line(K_Surfaces, <<"x">>) \o SurfaceItem(<<"A">>) }

\* a line whose stream name is not a key of _hyper_surface_file
UnknownNameSources ==
    { <<"\n">> \o Line(<<"F", "o", "o">>, <<"1">>) \o Line(K_NBranchingPoints, <<"0">>) }

\* streams of a group outside it: before any group, after a closed group,
\* inside another group, and a group inside a group
MisplacedSources ==
    { <<"\n">> \o Line(K_InnerRegion, <<"A">>),
      <<"\n">> \o Line(K_Triangles, <<"1">>) \o AsciiTriple \o <<"\n", "}", "\n">>,
      <<"\n">> \o Line(K_Patches, <<"1">>) \o PatchOf(AsciiTriple)
         \o Line(K_Triangles, <<"1">>) \o AsciiTriple \o <<"\n", "}", "\n">>,
      <<"\n">> \o VerticesOf(AsciiTriple) \o Line(K_Surfaces, <<"1">>) \o <<"{", "\n">>
         \o Line(K_Triangles, <<"1">>) \o AsciiTriple \o <<"\n", "}", "\n">>,
      <<"\n">> \o Line(K_Surfaces, <<"1">>) \o <<"{", "\n">> \o Line(K_Surfaces, <<"1">>)
         \o SurfaceItem(<<"A">>) \o <<"}", "\n">>,
      <<"\n">> \o Line(K_Patches, <<"3">>) \o PatchOf(AsciiTriple) \o SurfaceAscii }

\* a payload of two lines whose first line ends in a comment; a commented
\* payload with further streams behind it
CommentedSources ==
    { <<"\n">> \o Line(K_Vertices, <<"2">>) \o AsciiTriple
         \o <<" ", "#", "c", "\n", "4", " ", "5", " ", "6", "\n">>
         \o Line(K_NBranchingPoints, <<"0">>),
      <<"\n">> \o Line(K_Patches, <<"2">>)
         \o PatchOf(AsciiTriple \o <<" ", "#", "c">>) \o PatchOf(AsciiTriple) }

\* a line longer than the rescan overlap that is no marker, then a marker
UnmarkedLineSources ==
    { <<"\n">> \o Rep("x", MidChunk) \o <<"\n">>
         \o Line(K_NBranchingPoints, <<"0">>) }

StructureSources ==
    CompleteGroupSources \cup ShortGroupSources \cup MandatoryEmptySources
    \cup OptionalEmptySources \cup UncountedGroupSources \cup UnknownNameSources
    \cup MisplacedSources \cup CommentedSources \cup UnmarkedLineSources
    \cup SuccessiveGroupSources

WalkerSources ==
    WellFormedSources \cup BinarySources \cup MalformedSources \cup StructureSources

FormatsOf(src) ==
    IF src \in BinarySources THEN {"BINARY", "BINARY-LITTLE-ENDIAN"}
    ELSE IF src \in MalformedSources THEN {"ASCII", "", "AmiraMesh"}
    ELSE {"ASCII"}

StreamBytesChoices == {1, SmallChunk, MidChunk, BigChunk}

HeaderIdle ==
    /\ header_bytes = 0
    /\ file_format = ""
    /\ data = <<>>
    /\ m = NoneInt
    /\ searches = <<>>
    /\ pc = "idle"
    /\ result = NoResult
    /\ run = 0
    /\ prev = NoResult

Outcome ==
    [array_declarations |-> w.array_declarations,
     data_definitions |-> w.data_definitions,
     error |-> w.error]

(***************************************************************************)
(* The parsed header handed to the walker: a list of sections, each one    *)
(* key and the entries under it                                            *)
(***************************************************************************)
Section(key, items) == [key |-> key, items |-> items]

\* a declaration and a definition the header parser has put in already
GivenDecl == ArrayDecl("Lattice", 1)
GivenDef ==
    DataDef(Nm("Lattice", 0), Info("", "Data", 1, "float", FALSE), 0, EncNone,
            FALSE, NoneInt)

ParsedHeaders ==
    { <<Section("designation", <<>>)>>,
      <<Section("designation", <<>>), Section("array_declarations", <<GivenDecl>>),
        Section("data_definitions", <<GivenDef>>)>>,
      <<Section("designation", <<>>), Section("data_definitions", <<GivenDef>>),
        Section("array_declarations", <<GivenDecl>>)>>,
      <<Section("designation", <<>>), Section("parameters", <<>>),
        Section("array_declarations", <<GivenDecl>>)>>,
      <<Section("designation", <<>>), Section("parameters", <<>>),
        Section("data_definitions", <<GivenDef>>)>> }

\* every source is walked with the header of a designation only, the
\* well-formed ones with every header
HeadersOf(src) ==
    IF src \in WellFormedSources THEN ParsedHeaders
    ELSE {<<Section("designation", <<>>)>>}

\* index of the first section of pd[from..to] that has the key, 0 for none
FirstWith(pd, key, from, to) ==
    LET hits == {i \in from..to : pd[i].key = key}
    IN  IF hits = {} THEN 0 ELSE CHOOSE i \in hits : \A j \in hits : i <= j

\* a walker that puts a missing array_declarations section in front
NewDeclarations_First(pd) ==
    <<Section("array_declarations", <<>>)>> \o pd

\* parsed_data[1:1] = [dict(array_declarations = array_declarations)]
NewDeclarations(pd) ==
    <<pd[1]>> \o <<Section("array_declarations", <<>>)>> \o Tail(pd)

\* lines 315-341: the two lists the walker appends to are looked up in the
\* header, and put in as new sections when they are missing
LocateSections(pd) ==
    LET found == FirstWith(pd, "array_declarations", 1, Len(pd))
        parsed_item_id == IF found = 0 \/ found >= Len(pd) THEN 0 ELSE found
        pd1 == IF found = 0 THEN NewDeclarations(pd) ELSE pd
        decl == FirstWith(pd1, "array_declarations", 1, Len(pd1))
        behind == FirstWith(pd1, "data_definitions", parsed_item_id + 1, Len(pd1))
        before == FirstWith(pd1, "data_definitions", 1, parsed_item_id)
    IN  IF behind # 0 THEN [pd |-> pd1, decl |-> decl, defs |-> behind]
        ELSE IF before # 0 THEN [pd |-> pd1, decl |-> decl, defs |-> before]
        ELSE [pd |-> Append(pd1, Section("data_definitions", <<>>)),
              decl |-> decl, defs |-> Len(pd1) + 1]

\* array_declarations.append and data_definitions.append: what the walker
\* appended between loc0 and loc1 goes to the two lists looked up
ExtendParsed(pd, loc0, loc1) ==
    LET at == LocateSections(pd)
        decls == SubSeq(loc1.array_declarations, Len(loc0.array_declarations) + 1,
                        Len(loc1.array_declarations))
        defs == SubSeq(loc1.data_definitions, Len(loc0.data_definitions) + 1,
                       Len(loc1.data_definitions))
    IN  [i \in 1..Len(pd) |->
            IF i = at.decl THEN Section(pd[i].key, pd[i].items \o decls)
            ELSE IF i = at.defs THEN Section(pd[i].key, pd[i].items \o defs)
            ELSE pd[i]]

\* the file handle and the stream_data argument at the call of the walker:
\* the first 'given' bytes of the section were read by the caller
WalkerInit ==
    /\ source \in WalkerSources
    /\ data_format \in FormatsOf(source)
    /\ stream_bytes \in StreamBytesChoices
    /\ \E given \in {0, PreRead} :
          /\ fpos = Min(given, Len(source))
          /\ reads = IF given = 0 THEN <<>>
                     ELSE <<<<given, Min(given, Len(source))>>>>
          /\ w = WalkerLocals(FileRead(source, 0, given))
    /\ gen = "run"
    /\ stream_data = <<>>
    /\ col = NoCollect
    /\ wpc = "call"
    /\ wrun = 1
    /\ wprev = NoOutcome
    /\ parsed_given \in HeadersOf(source)
    /\ parsed_data = parsed_given
    /\ HeaderIdle
    /\ AmiraIdle

\* lines 315-350: the lists to append to are looked up in the header, and the
\* designation's format selects how payloads are extracted
WalkerStart ==
    /\ wpc = "call"
    /\ IF IsBinary(data_format) \/ data_format = "ASCII"
       THEN wpc' = "loop" /\ w' = w
       ELSE wpc' = "error" /\ w' = Raise(w, "not valid HyperSurface data")
    /\ parsed_data' = LocateSections(parsed_data).pd
    /\ UNCHANGED <<stream_bytes, data_format, gen, stream_data, col, wrun, wprev,
                   parsed_given>>
    /\ UNCHANGED <<fvars, gvars, avars>>

\* lines 462-480 for a stream with an item size and a count: the payload is
\* cut out of the buffer and the file (BINARY) or collecting it begins (ASCII)
ReadStream(loc, rest, name, info, n, offset, p) ==
    LET num_bytes == n * info.itemsize * type_sizes(info.type)
        rb == readbytes(source, p, num_bytes, rest)
        ce == CollectEnter(source, p, stream_bytes, rest)
        held == [name |-> name, info |-> info, num_items |-> n,
                 stream_offset |-> offset]
        done == Emit([loc EXCEPT !.remaining_bytes = rb.rest], name, info, n,
                     offset, EncBytes(rb.data))
    IN  IF IsBinary(data_format)
        THEN [w |-> done, col |-> NoCollect, read |-> rb.read,
              wpc |-> IF done.error # "" THEN "error" ELSE "loop"]
        ELSE [w |-> [loc EXCEPT !.pending = held, !.warnings = @ + ce.warned],
              col |-> ce.col, read |-> ce.read, wpc |-> "collect"]

\* the body of the for loop over the yielded buffer (lines 383-526)
LoopBody(loc0, sd, p, ns) ==
    LET loc == CloseItem(loc0, sd, ns)
        info == StreamInfo(ns.stream, loc.group_level)
        name == KeyName(ns.stream)
        rest == Slice(sd, ns.e, Len(sd))
        at == p - Len(sd)
        cut == [loc EXCEPT !.remaining_bytes = rest]
        Plain(l) == [w |-> l, col |-> NoCollect, read |-> <<>>,
                     wpc |-> IF l.error # "" THEN "error" ELSE "loop"]
    IN  IF ns.s = NoneInt
        THEN Plain([loc0 EXCEPT !.continue_scanning_at =
                                    IF Len(sd) > rescan_overlap
                                    THEN Len(sd) - rescan_overlap ELSE 0,
                                !.force_expand = TRUE])
        ELSE IF info.type = "group"
        THEN Plain(OpenGroup(loc, rest, ns, info, name))
        ELSE IF info.itemsize # NoneInt /\ ns.count # <<>>
        THEN ReadStream(loc, rest, name, info, DigitsValue(ns.count), at + ns.e, p)
        ELSE IF info.itemsize # NoneInt
        THEN Plain(Raise(cut, "no number of items"))
        ELSE IF ns.count # <<>>
        THEN Plain(Emit(cut, name, info, NoneInt, at + ns.count_end,
                        EncInt(DigitsValue(ns.count))))
        ELSE Plain(Emit(cut, name, info, NoneInt, at + ns.string_end,
                        EncStr(ns.string)))

\* one turn of 'for stream_data in iter_hypersurface_stream()': the generator
\* is resumed and, unless it returns, the body runs on the buffer it yields
WalkerStep ==
    /\ wpc = "loop"
    /\ \E it \in {IterResume(gen, w, source, fpos, stream_bytes)} :
          IF it.gen = "done"
          THEN /\ gen' = "done"
               /\ wpc' = "done"
               /\ fpos' = fpos
               /\ reads' = reads \o it.read
               /\ UNCHANGED <<w, col, stream_data>>
          ELSE \E ns \in {Search(1, it.buffer, w.continue_scanning_at)} :
               \E b \in {LoopBody([w EXCEPT !.remaining_bytes = it.buffer,
                                            !.force_expand = it.force],
                                  it.buffer, fpos + Taken(it.read), ns)} :
                  /\ gen' = it.gen
                  /\ stream_data' = it.buffer
                  /\ w' = b.w
                  /\ col' = b.col
                  /\ wpc' = b.wpc
                  /\ fpos' = fpos + Taken(it.read) + Taken(b.read)
                  /\ reads' = reads \o it.read \o b.read
    /\ parsed_data' = ExtendParsed(parsed_data, w, w')
    /\ UNCHANGED <<source, stream_bytes, data_format, wrun, wprev, parsed_given>>
    /\ UNCHANGED <<gvars, avars>>

\* one turn of the loop of collect_hypersurface_ascii_stream; when it returns
\* the walker appends the stream (lines 467, 481-526)
CollectStep ==
    /\ wpc = "collect"
    /\ \E ns \in {StopSearch(col.stream_data \o col.at_end_of_file,
                              col.continue_scanning_at)} :
       \E t \in {CollectTurn(col, ns, source, fpos, stream_bytes)} :
       \E done \in {Emit([w EXCEPT !.remaining_bytes = t.rest,
                                   !.warnings = @ + t.warned],
                         w.pending.name, w.pending.info, w.pending.num_items,
                         w.pending.stream_offset, EncBytes(t.data))} :
           /\ fpos' = fpos + Taken(t.read)
           /\ reads' = reads \o t.read
           /\ IF t.returned
              THEN /\ w' = done
                   /\ col' = NoCollect
                   /\ wpc' = IF done.error # "" THEN "error" ELSE "loop"
              ELSE /\ w' = w
                   /\ col' = t.col
                   /\ wpc' = "collect"
    /\ parsed_data' = ExtendParsed(parsed_data, w, w')
    /\ UNCHANGED <<source, stream_bytes, data_format, gen, stream_data, wrun, wprev,
                   parsed_given>>
    /\ UNCHANGED <<gvars, avars>>

\* the same section walked again from a fresh handle with another stream_bytes
WalkerAgain ==
    /\ wpc \in {"done", "error"}
    /\ wrun = 1
    /\ \E sb \in StreamBytesChoices \ {stream_bytes} : stream_bytes' = sb
    /\ wprev' = Outcome
    /\ wrun' = 2
    /\ fpos' = Len(w.given)
    /\ reads' = IF w.given = <<>> THEN <<>> ELSE <<<<Len(w.given), Len(w.given)>>>>
    /\ w' = WalkerLocals(w.given)
    /\ gen' = "run"
    /\ stream_data' = <<>>
    /\ col' = NoCollect
    /\ wpc' = "call"
    /\ parsed_data' = parsed_given
    /\ UNCHANGED <<source, data_format, parsed_given>>
    /\ UNCHANGED <<gvars, avars>>

WalkerNext ==
    \/ WalkerStart
    \/ WalkerStep
    \/ CollectStep
    \/ WalkerAgain

WalkerSpec == WalkerInit /\ [][WalkerNext]_hvars

(***************************************************************************)
(* next_amiramesh_binary_stream, called once for every stream of the file  *)
(* with the declared length of the stream and the bytes the call before    *)
(* left over                                                               *)
(***************************************************************************)
\* lines 209-225; a slice [-0:] is the whole buffer
next_amiramesh_binary_stream(src, p, sb, sd) ==
    LET read_bytes == sb + rescan_overlap - Len(sd)
        got == IF read_bytes > 0 THEN FileRead(src, p, read_bytes) ELSE <<>>
        first == IF read_bytes > 0 THEN <<<<read_bytes, Len(got)>>>> ELSE <<>>
        buf == sd \o got
        told == p + Len(got)
        next_stream == Search(0, buf, 0)
        stream_remainder == Len(buf) - next_stream.e
        stream_tail == Slice(buf, sb, Len(buf))
        head == Slice(buf, 0, sb)
        at_end_of_file == FileRead(src, told, rescan_overlap)
        second == <<<<rescan_overlap, Len(at_end_of_file)>>>>
    IN  IF next_stream.s # NoneInt
        THEN [data |-> Slice(buf, 0, next_stream.s),
              remainder |-> IF stream_remainder = 0 THEN buf
                            ELSE Slice(buf, next_stream.e, Len(buf)),
              index |-> DigitsValue(next_stream.stream),
              offset |-> told - stream_remainder,
              tell |-> told, read |-> first]
        ELSE IF Len(head) >= sb
        THEN [data |-> head, remainder |-> stream_tail \o at_end_of_file,
              index |-> -1,
              offset |-> IF at_end_of_file = <<>> THEN -1
                         ELSE told + Len(at_end_of_file)
                              - (Len(stream_tail) + Len(at_end_of_file)),
              tell |-> told + Len(at_end_of_file), read |-> first \o second]
        ELSE [data |-> head, remainder |-> <<>>, index |-> -1, offset |-> -1,
              tell |-> told + Len(at_end_of_file), read |-> first \o second]

LongPayload == 40    \* a payload longer than the rescan overlap
GivenBytes == 3      \* bytes of the first stream the caller has read already

\* binary payloads: plain bytes, a payload that holds the bytes of a marker
\* line, payloads that end or begin with a newline byte
AmiraPayloads ==
    { <<"x">>, Rep("x", 4), Rep("x", LongPayload),
      <<"x", "\n", "@", "7", "\n", "x">>,
      <<"x", "x", "x", "\n">>,
      <<"\n", "x", "x", "x">>,
      <<>> }

\* the data section behind the marker of stream 1: the payload, the marker
\* of stream 2, its payload, a newline
AmiraSection(ps) == ps[1] \o <<"\n", "@", "2", "\n">> \o ps[2] \o <<"\n">>

AmiraInit ==
    /\ payloads \in AmiraPayloads \X AmiraPayloads
    /\ source = AmiraSection(payloads)
    /\ \E given \in {0, GivenBytes} :
          /\ fpos = Min(given, Len(source))
          /\ reads = IF given = 0 THEN <<>>
                     ELSE <<<<given, Min(given, Len(source))>>>>
          /\ residual = FileRead(source, 0, given)
    /\ loaded = <<>>
    /\ HeaderIdle
    /\ WalkerIdle

\* the next stream is loaded with its declared length as stream_bytes
NextBinaryStream ==
    /\ Len(loaded) < Len(payloads)
    /\ \E r \in {next_amiramesh_binary_stream(
                      source, fpos, Len(payloads[Len(loaded) + 1]), residual)} :
          /\ loaded' = Append(loaded, [data |-> r.data, remainder |-> r.remainder,
                                        index |-> r.index, offset |-> r.offset])
          /\ residual' = r.remainder
          /\ fpos' = r.tell
          /\ reads' = reads \o r.read
    /\ UNCHANGED <<source, payloads>>
    /\ UNCHANGED <<gvars, wvars>>

AmiraNext == NextBinaryStream

AmiraSpec == AmiraInit /\ [][AmiraNext]_hvars

(***************************************************************************)
(* get_header(fn, file_format, header_bytes) of the older grammar.py, with *)
(* the stream delimiters of that module:                                   *)
(*   (?:^|\n)@(?P<stream>\d+)\n                                            *)
(*   (?:^|\n)\s*(?P<stream>keys)(?:\s+(?:(?P<count>\d+)|(?P<name>\w+)))?   *)
(*       (?:\s*\n|\s+{)                                                    *)
(***************************************************************************)
Letters ==
    {"a", "b", "c", "d", "e", "f", "g", "h", "i", "j", "k", "l", "m", "n", "o",
     "p", "q", "r", "s", "t", "u", "v", "w", "x", "y", "z",
     "A", "B", "C", "D", "E", "F", "G", "H", "I", "J", "K", "L", "M", "N", "O",
     "P", "Q", "R", "S", "T", "U", "V", "W", "X", "Y", "Z"}
Word == Letters \cup Digits \cup {"_"}

\* offset after the run of word bytes that starts at p (\w*)
WordEnd(d, p) ==
    IF p >= Len(d) THEN p
    ELSE CHOOSE q \in p..Len(d) :
             /\ \A i \in (p + 1)..q : d[i] \in Word
             /\ q = Len(d) \/ d[q + 1] \notin Word

\* (?:^|\n)@\d+\n matched at s
FileAmiraAt(d, s) ==
    \E a \in {s, s + 1} :
        /\ a = s => s = 0
        /\ a = s + 1 => (s < Len(d) /\ d[s + 1] = "\n")
        /\ a < Len(d) /\ d[a + 1] = "@"
        /\ DigitsEnd(d, a + 1) > a + 1
        /\ DigitsEnd(d, a + 1) < Len(d)
        /\ d[DigitsEnd(d, a + 1) + 1] = "\n"

\* (?:\s*\n|\s+{) matched at p
FileEndAt(d, p) ==
    LET q == SkipWs(d, p)
    IN  \/ LastNlEnd(d, p, q) # NoneInt
        \/ q > p /\ q < Len(d) /\ d[q + 1] = "{"

\* the second delimiter matched at s
FileHyperAt(d, s) ==
    LET a == SkipWs(d, s)
        k == a + Len(KeyAt(d, a))
        t == SkipWs(d, k)
        u == WordEnd(d, t)
    IN  /\ LineStartAt(d, s)
        /\ KeyAt(d, a) # <<>>
        /\ \/ FileEndAt(d, k)
           \/ t > k /\ u > t /\ FileEndAt(d, u)

\* _stream_delimiters[i].search(data, from).start(), NoneInt for None
FileSearch(delim, d, from) ==
    LET Hit(p) == IF delim = 0 THEN FileAmiraAt(d, p) ELSE FileHyperAt(d, p)
        s == Max(from, 0)
    IN  IF \E p \in s..Len(d) : Hit(p)
        THEN CHOOSE p \in s..Len(d) : Hit(p) /\ \A q \in s..(p - 1) : ~Hit(q)
        ELSE NoneInt

MaxEmptyReads == 2   \* reads at the end of the file a run is followed for

\* _rescan_overlap of that module: the longest key and 16 bytes
file_rescan_overlap == MaxLen(hyper_surface_entities) + 16

\* the files of a format detect_format recognises
FileSources == {f \in HeaderSources : ~IsUndefined(FormatMatch(f))}

\* get_header is entered with the format detect_format found for the file
FileHeaderInit ==
    /\ source \in FileSources
    /\ file_format = FormatMatch(source)
    /\ header_bytes \in HeaderBytesChoices
    /\ fpos = 0
    /\ reads = <<>>
    /\ data = <<>>
    /\ m = NoneInt
    /\ searches = <<>>
    /\ pc = "open"
    /\ result = NoResult
    /\ run = 1
    /\ prev = NoResult
    /\ WalkerIdle
    /\ AmiraIdle

\* lines 216-223, 233: the first chunk is read and searched from its start
FileReadFirst ==
    /\ pc = "open"
    /\ \E first \in {FileRead(source, 0,
                   IF header_bytes >= file_rescan_overlap THEN header_bytes
                   ELSE file_rescan_overlap)} :
          /\ data' = first
          /\ fpos' = Len(first)
          /\ reads' = <<<<Max(header_bytes, file_rescan_overlap), Len(first)>>>>
          /\ m' = FileSearch(DelimiterOf(file_format), first, 0)
    /\ searches' = <<0>>
    /\ pc' = "scan"
    /\ UNCHANGED <<source, header_bytes, file_format, result, run, prev>>
    /\ UNCHANGED <<wvars, avars>>

\* lines 224-227, 234-237: one pass of 'while m is None'
FileScanMore ==
    /\ pc = "scan"
    /\ m = NoneInt
    /\ Cardinality({i \in 1..Len(reads) : reads[i][2] = 0}) < MaxEmptyReads
    /\ \E more \in {FileRead(source, fpos, header_bytes)} :
          /\ data' = data \o more
          /\ fpos' = fpos + Len(more)
          /\ reads' = Append(reads, <<header_bytes, Len(more)>>)
          /\ m' = FileSearch(DelimiterOf(file_format), data \o more,
                             Len(data) - file_rescan_overlap)
    /\ searches' = Append(searches, Len(data) - file_rescan_overlap)
    /\ UNCHANGED <<source, header_bytes, file_format, pc, result, run, prev>>
    /\ UNCHANGED <<wvars, avars>>

\* line 242: return _decode_string(data[:m.start()])
FileReturnHeader ==
    /\ pc = "scan"
    /\ m # NoneInt
    /\ result' = [status |-> "ok", format |-> file_format,
                  header |-> DecodeString(HeaderPart(data, m)),
                  remainder |-> <<>>, found |-> TRUE]
    /\ pc' = "done"
    /\ UNCHANGED <<source, fpos, reads, header_bytes, file_format, data, m,
                   searches, run, prev>>
    /\ UNCHANGED <<wvars, avars>>

FileHeaderNext ==
    \/ FileReadFirst
    \/ FileScanMore
    \/ FileReturnHeader

FileHeaderSpec == FileHeaderInit /\ [][FileHeaderNext]_hvars

(***************************************************************************)
(* The two scanners that search a growing buffer, get_header and           *)
(* parse_hypersurface_data, side by side                                   *)
(***************************************************************************)
ScanSpec == (HeaderInit \/ WalkerInit) /\ [][HeaderNext \/ WalkerNext]_hvars

(***************************************************************************)
(* Properties of parse_hypersurface_data                                   *)
(***************************************************************************)
Walked == wpc \in {"done", "error"}

\* the turn the walker is about to take: the buffer the generator yields, the
\* marker found in it and the locals once a closing brace before it is handled
Yielded == IterResume(gen, w, source, fpos, stream_bytes)
Marker == Search(1, Yielded.buffer, w.continue_scanning_at)
AtMarker == wpc = "loop" /\ Yielded.gen # "done" /\ Marker.s # NoneInt
Entered == CloseItem(w, Yielded.buffer, Marker)
MarkerInfo == StreamInfo(Marker.stream, Entered.group_level)

\* C2: for a fixed well-formed section the walker appends the same array
\* declarations and data definitions whatever stream_bytes is
C2_StreamBytesIndependent ==
    (Walked /\ wrun = 2 /\ source \in WellFormedSources) => Outcome = wprev

\* C3: the walker returns only when the file is exhausted and the bytes it
\* has not consumed hold no further stream or group marker
C3_StopsOnlyWithoutDelimiter ==
    wpc = "done" =>
        /\ fpos = Len(source)
        /\ Search(1, w.remaining_bytes, 0).s = NoneInt

\* C11: group_level is always 0 or 1, and a marker whose descriptor is a
\* group, met while a group is open, raises AHDSStreamError and leaves the
\* level at 1
C11_TwoLevels ==
    /\ [](w.group_level \in {0, 1})
    /\ [][(AtMarker /\ MarkerInfo.type = "group" /\ Entered.group_level = 1)
            => (wpc' = "error" /\ w'.error \in AHDSStreamError
                /\ w'.group_level = 1)]_hvars

C11_Witness ==
    /\ wpc = "error"
    /\ w.error = "sub groups not supported"
    /\ w.group_level = 1

\* the declarations of one kind appended so far, in order
DeclsOf(kind) ==
    LET Is(d) == d.kind = kind IN SelectSeq(w.array_declarations, Is)

\* the items a section supplies: each opens with a brace
Supplied(src) == Cardinality({i \in 1..Len(src) : src[i] = "{"})

\* C12: a section that declares a group of N items and supplies them makes
\* the walker append one group declaration and the N item declarations
\* <GroupBase>1 .. <GroupBase>N, numbered in order under the group's name
C12_CompleteGroupDeclared ==
    (Walked /\ source \in CompleteGroupSources) =>
        /\ Len(DeclsOf("group")) = 1
        /\ Len(DeclsOf("item")) = Supplied(source)
        /\ \A k \in 1..Len(DeclsOf("item")) :
              /\ DeclsOf("item")[k].array_name = Nm(w.array_id, k)
              /\ DeclsOf("item")[k].array_itemid = k
              /\ DeclsOf("item")[k].array_parent
                     = DeclsOf("group")[1].array_name.base

\* C13: a section that declares a group of N items and supplies N-1 makes
\* the walker raise that items of the group are missing, whether the end of
\* the section or another group marker follows
C13_ShortGroupRaises ==
    (Walked /\ data_format = "ASCII"
            /\ source \in ShortGroupSources \cup ShortThenGroupSources) =>
        (wpc = "error" /\ w.error = "items missing")

\* C14: a group marker with count 0 raises that the group is mandatory when
\* it is Patches, wherever it stands in the section, and is skipped when the
\* group is optional: no declaration, the walker stays at level 0
C14_EmptyGroupByOptionality ==
    /\ (Walked /\ data_format = "ASCII" /\ source \in MandatoryEmptySources) =>
           (wpc = "error" /\ w.error = "group is mandatory")
    /\ (Walked /\ source \in OptionalEmptySources) =>
           /\ wpc = "done"
           /\ w.group_level = 0
           /\ DeclsOf("group") = <<>> /\ DeclsOf("item") = <<>>

\* C15: a marker whose descriptor is a group, matched at level 0 without a
\* numeric count, raises AHDSStreamError; the level stays 0 and nothing is
\* declared for the group
C15_UncountedGroupRaises ==
    [][(AtMarker /\ MarkerInfo.type = "group" /\ Entered.group_level = 0
                 /\ Marker.count = <<>>)
        => (/\ wpc' = "error"
            /\ w'.error = "item count not readable"
            /\ w'.error \in AHDSStreamError
            /\ w'.group_level = 0
            /\ w'.array_declarations = w.array_declarations)]_hvars

\* the count was refused for a marker that carries a token that is no number
C15_Witness ==
    /\ wpc = "error"
    /\ w.error = "item count not readable"
    /\ w.group_level = 0
    /\ Search(1, stream_data, 0).string = <<"x">>

\* C16: a line of the section whose stream name is no key of the descriptor
\* table makes the walker raise AHDSStreamError
C16_UnknownNameRaises ==
    (Walked /\ source \in UnknownNameSources) =>
        (wpc = "error" /\ w.error \in AHDSStreamError)

\* C17: the walker fails with AHDSStreamError only, and a stream met outside
\* the group that owns it (before any group, after a closed group, inside
\* another group) makes it fail
C17_MisplacedStreamRaises ==
    /\ wpc = "error" => w.error \in AHDSStreamError
    /\ (Walked /\ data_format = "ASCII" /\ source \in MisplacedSources) =>
           wpc = "error"

\* the definitions appended so far whose value is a payload or a text token
Extracted ==
    {i \in 1..Len(w.data_definitions) :
        w.data_definitions[i].stream_data.t \in {"bytes", "str"}}

\* C18: for every data definition, stream_offset + len(stream_data) is within
\* the bytes consumed from the file, and the file holds stream_data at
\* stream_offset
C18_OffsetReproducesData ==
    \A i \in Extracted :
        LET d == w.data_definitions[i]
            n == Len(d.stream_data.b)
        IN  /\ d.stream_offset + n <= fpos
            /\ Slice(source, d.stream_offset, d.stream_offset + n) = d.stream_data.b

\* the offsets just past a marker line "Vertices 1" or "Triangles 1", where
\* the payload of the stream begins
PayloadStarts ==
    {e \in 1..Len(source) :
        \E k \in {K_Vertices, K_Triangles} :
            /\ e >= Len(k) + 3
            /\ Slice(source, e - (Len(k) + 3), e) = Line(k, <<"1">>)}

\* C19: in a BINARY file the payload of a stream with a fixed item size is
\* the count * item_multiplicity * type_size bytes that immediately follow
\* its marker
C19_BinaryPayloadFollowsMarker ==
    IsBinary(data_format) =>
        \A i \in Extracted :
            LET d == w.data_definitions[i]
                n == DigitsValue(<<"1">>) * d.data_dimension * type_sizes(d.data_type)
            IN  d.stream_data.t = "bytes" =>
                    /\ d.stream_offset \in PayloadStarts
                    /\ Len(d.stream_data.b) = n
                    /\ d.stream_data.b = Slice(source, d.stream_offset, d.stream_offset + n)

\* offset off lies between the braces of the k-th item of the source
InsideItem(off, k) ==
    \E o, c \in 1..Len(source) :
        /\ source[o] = "{" /\ Cardinality({q \in 1..o : source[q] = "{"}) = k
        /\ source[c] = "}" /\ Cardinality({q \in 1..c : source[q] = "}"}) = k
        /\ o <= off /\ off < c

\* the place among the items of the source of the item that is open: one
\* item declaration was appended for every item entered, over all groups
OpenItem(loc) ==
    LET IsItem(a) == a.kind = "item"
    IN  Len(SelectSeq(loc.array_declarations, IsItem))

PayloadOffset(k) == IF k = 1 THEN 0 ELSE Len(payloads[1]) + 4

\* C21: a call with the declared length of the stream returns the payload of
\* the stream, whatever its bytes, the index of the marker that follows (-1
\* after the last stream) and the offset of the first byte after that marker
C21_BinaryStreamByLength ==
    \A k \in 1..Len(loaded) :
        /\ loaded[k].data = payloads[k]
        /\ k < Len(payloads) =>
               /\ loaded[k].index = k + 1
               /\ loaded[k].offset = PayloadOffset(k + 1)
        /\ k = Len(payloads) => loaded[k].index = -1

\* the offset a search effectively starts at: pattern.search takes a
\* negative pos as 0
StartOf(pos) == IF pos < 0 THEN 0 ELSE pos

LastSearch(log) == StartOf(log[Len(log)])

\* get_header searched again after a failed search over data
Rescanned == pc = "scan" /\ Len(searches') > Len(searches)

\* the walker found no marker in the buffer it was yielded
Retried ==
    /\ wpc = "loop" /\ Yielded.gen # "done" /\ Marker.s = NoneInt
    /\ wpc' = "loop"

\* C22: after a failed search over a buffer of n bytes the next search
\* starts at max(0, n - rescan_overlap), the start offsets do not decrease
\* from one retry to the next, and a match does not start before the offset
\* its search started at
C22_SearchStartNeverRetreats ==
    /\ [](AtMarker => Marker.s >= w.continue_scanning_at)
    /\ [][Rescanned =>
             /\ LastSearch(searches') = StartOf(Len(data) - rescan_overlap)
             /\ LastSearch(searches') >= LastSearch(searches)
             /\ m' # NoneInt => m' >= LastSearch(searches')]_hvars
    /\ [][Retried =>
             /\ w'.continue_scanning_at =
                    StartOf(Len(Yielded.buffer) - rescan_overlap)
             /\ w'.continue_scanning_at >= w.continue_scanning_at]_hvars

\* get_header found the marker in a search that started inside the buffer
C22_Witness ==
    /\ pc = "scan" /\ m # NoneInt
    /\ Len(searches) > 2 /\ LastSearch(searches) > 0
    /\ LastSearch(searches) > StartOf(searches[Len(searches) - 1])

\* the walker found a marker in a search that started inside the buffer
WalkerRescanWitness == AtMarker /\ w.continue_scanning_at > 0

\* the bytes of the buffer get_header searched again in its last search
RescannedTail == Len(data) - reads[Len(reads)][2] - searches[Len(searches)]

\* get_header has searched a buffer longer than the overlap a second time
TailInUse ==
    /\ pc = "scan" /\ Len(searches) > 1 /\ reads # <<>>
    /\ searches[Len(searches)] > 0

NewValue ==
    IF Len(w'.data_definitions) > Len(w.data_definitions)
    THEN w'.data_definitions[Len(w'.data_definitions)].stream_data
    ELSE IF Len(w'.array_declarations) > Len(w.array_declarations)
    THEN w'.array_declarations[Len(w'.array_declarations)].stream_data
    ELSE [t |-> "none", b |-> <<>>, n |-> 0]

\* the marker of a stream that is no group
AtStream == AtMarker /\ MarkerInfo.type # "group"

Sized == MarkerInfo.itemsize # NoneInt
Counted == Marker.count # <<>>

UncountedStreamRaised == wpc = "error" /\ w.error = "no number of items"

\* the payload that begins a byte string: its bytes up to the first
\* terminator that is not part of a comment, the comments before it removed,
\* and the offset of that terminator in the byte string as given
RECURSIVE PayloadOf(_, _, _)
PayloadOf(rest, from, removed) ==
    LET ns == StopSearch(rest, from) IN
    IF ns.s = NoneInt THEN [data |-> rest, term |-> NoneInt]
    ELSE IF ns.stop THEN [data |-> Slice(rest, 0, ns.s), term |-> ns.s + removed]
    ELSE PayloadOf(Slice(rest, 0, ns.s) \o Slice(rest, ns.e, Len(rest)), ns.s,
                   removed + (ns.e - ns.s))

AsciiPayloadAt(off) == PayloadOf(Slice(source, off, Len(source)), 0, 0)

\* C25: in an ASCII file the payload of a stream is the content of the file
\* from the marker to the first terminator with the comments removed, and
\* what collect_hypersurface_ascii_stream hands back begins at that
\* terminator, whatever the read size
C25_AsciiPayloadToTerminator ==
    /\ [](\A i \in Extracted :
             LET d == w.data_definitions[i] IN
             (d.stream_data.t = "bytes" /\ data_format = "ASCII") =>
                 d.stream_data.b = AsciiPayloadAt(d.stream_offset).data)
    /\ [][(wpc = "collect" /\ wpc' # "collect") =>
             LET r == AsciiPayloadAt(w.pending.stream_offset) IN
             r.term # NoneInt =>
                 w'.remaining_bytes =
                     Slice(source, w.pending.stream_offset + r.term, fpos')]_hvars

\* the walker is about to collect an ASCII payload from an empty buffer: the
\* marker of the stream ends the buffer
EntersEmpty ==
    /\ AtStream /\ Sized /\ Counted /\ ~IsBinary(data_format)
    /\ Marker.e = Len(Yielded.buffer)

\* the collector is about to leave its loop: the last read returned nothing
Exhausted == wpc = "collect" /\ col.at_end_of_file = <<>>

ExhaustedWitness == wpc = "done" /\ w.warnings = 2

RECURSIVE Returned_Bytes(_)
Returned_Bytes(log) ==
    IF log = <<>> THEN 0 ELSE log[1][2] + Returned_Bytes(Tail(log))

\* the position of the handle once the generator has yielded
YieldedAt == fpos + Taken(Yielded.read)

\* C27: the file is read forward only, every byte once; the buffer the walker
\* matches a marker in is the last len(buffer) bytes read, so that
\* position - len(buffer) + match end is the offset of the byte after the
\* marker in the file, also behind a payload whose comments were removed:
\* a text token ends at the offset appended for it
C27_ForwardOnlyTrueOffsets ==
    /\ [](wpc # "idle" => fpos = Returned_Bytes(reads) /\ fpos <= Len(source))
    /\ [](AtMarker =>
             /\ YieldedAt >= Len(Yielded.buffer)
             /\ Yielded.buffer =
                    Slice(source, YieldedAt - Len(Yielded.buffer), YieldedAt))
    /\ [](\A i \in Extracted :
             LET d == w.data_definitions[i] IN
             d.stream_data.t = "str" =>
                 Slice(source, d.stream_offset - Len(d.stream_data.b),
                       d.stream_offset) = d.stream_data.b)
    /\ [][wrun' = wrun =>
             /\ fpos' >= fpos
             /\ SubSeq(reads', 1, Len(reads)) = reads]_hvars

\* a marker met behind a payload whose comment was removed
C27_Witness ==
    /\ AtMarker
    /\ YieldedAt > Len(Yielded.buffer)
    /\ \E i \in Extracted :
           LET d == w.data_definitions[i] IN
           /\ d.stream_data.t = "bytes"
           /\ Slice(source, d.stream_offset, d.stream_offset + Len(d.stream_data.b))
                  # d.stream_data.b

HasSection(pd, key) == \E i \in 1..Len(pd) : pd[i].key = key

\* the header handed over with the sections it lacks: array_declarations as
\* its second section, data_definitions as its last
Framed ==
    LET pd == parsed_given
        pd1 == IF HasSection(pd, "array_declarations") THEN pd
               ELSE <<pd[1], Section("array_declarations", <<>>)>> \o Tail(pd)
    IN  IF HasSection(pd1, "data_definitions") THEN pd1
        ELSE Append(pd1, Section("data_definitions", <<>>))

Appendable == {"array_declarations", "data_definitions"}

\* what the walker has appended to the sections with the key
AppendedTo(key) ==
    IF key = "array_declarations" THEN w.array_declarations
    ELSE IF key = "data_definitions" THEN w.data_definitions
    ELSE <<>>

\* C28: the walker leaves the sections of the header and their entries as
\* they are and in their order, puts in a missing array_declarations section
\* at index 1 and a missing data_definitions section at the end, and appends
\* its declarations and definitions behind the entries already there
C28_HeaderOnlyAppended ==
    /\ wpc = "call" => parsed_data = parsed_given
    /\ wpc \in {"loop", "collect", "done", "error"} =>
           /\ Len(parsed_data) = Len(Framed)
           /\ \A i \in 1..Len(Framed) :
                  /\ parsed_data[i].key = Framed[i].key
                  /\ parsed_data[i].items =
                         Framed[i].items \o AppendedTo(Framed[i].key)

\* a header without array_declarations whose data_definitions got entries
\* behind the one that was there
C28_Witness ==
    /\ wpc = "done"
    /\ ~HasSection(parsed_given, "array_declarations")
    /\ \E i \in 1..Len(parsed_data) :
           /\ parsed_data[i].key = "data_definitions"
           /\ Len(parsed_data[i].items) > 1
           /\ parsed_data[i].items[1] = GivenDef

\* the generator is resumed by the for loop
Resumed == wpc = "loop" /\ wpc' # "call"

\* the read of the generator returns no bytes
EmptyRead == gen = "run" /\ Yielded.read = <<<<stream_bytes, 0>>>>

\* C29: when its read returns no bytes the generator yields the buffer that
\* is left once if it is not empty, and returns when resumed again without
\* another read; with an empty buffer it returns at once and yields nothing
C29_TailYieldedOnce ==
    /\ [][(Resumed /\ EmptyRead /\ w.remaining_bytes # <<>>) =>
             /\ gen' = "tail"
             /\ stream_data' = w.remaining_bytes]_hvars
    /\ [][(Resumed /\ EmptyRead /\ w.remaining_bytes = <<>>) =>
             /\ gen' = "done" /\ wpc' = "done"
             /\ stream_data' = stream_data /\ w' = w]_hvars
    /\ [][(Resumed /\ gen = "tail") =>
             /\ gen' = "done" /\ wpc' = "done"
             /\ reads' = reads /\ fpos' = fpos
             /\ stream_data' = stream_data /\ w' = w]_hvars
    /\ [](gen = "done" => wpc \in {"idle", "done"})

\* the tail was yielded, a marker was taken from it, and bytes are left
C29_Witness ==
    /\ gen = "tail" /\ wpc = "loop"
    /\ reads # <<>> /\ reads[Len(reads)][2] = 0
    /\ w.remaining_bytes # <<>>

\* a turn of the for loop: what the generator does when resumed
Matched == Yielded.gen # "done" /\ Marker.s # NoneInt
Grown == Yielded.read # <<>> /\ Taken(Yielded.read) > 0
LastTurn == Yielded.gen \in {"tail", "done"}

\* C30 as stated: every turn of the walker loop takes a matched marker,
\* grows the buffer by a read that is not empty, or is the last turn after
\* an empty read
C30_EveryTurnProgresses ==
    [][Resumed => (Matched \/ Grown \/ LastTurn)]_hvars

\* a turn on a buffer of rescan_overlap bytes or more that was not extended
\* and holds no marker: it asks for the read the next turn makes
Deferred ==
    /\ ~Matched /\ Yielded.read = <<>>
    /\ Len(w.remaining_bytes) >= rescan_overlap /\ ~w.force_expand
    /\ w'.force_expand /\ w'.remaining_bytes = w.remaining_bytes
    /\ wpc' = "loop"

\* the collector leaves its loop at a terminator or after an empty read
AtTerminator ==
    LET ns == StopSearch(col.stream_data \o col.at_end_of_file,
                         col.continue_scanning_at)
    IN  col.at_end_of_file # <<>> /\ ns.s # NoneInt /\ ns.stop
AfterEmptyRead ==
    col.at_end_of_file = <<>> /\ reads # <<>> /\ reads[Len(reads)][2] = 0

\* the bytes of the file not read yet, and those with the bytes held
Unread == Len(source) - fpos
Held == IF wpc = "collect"
        THEN Len(col.stream_data) + Len(col.at_end_of_file)
        ELSE Len(w.remaining_bytes)

\* what a turn can still do without taking or reading a byte: the collector
\* returns to the loop, the loop asks for a read, the generator ends
Pending ==
    IF wpc = "collect"
    THEN 6 + (IF col.at_end_of_file # <<>> THEN 1 ELSE 0)
    ELSE 2 * (CASE gen = "run" -> 2 [] gen = "tail" -> 1 [] OTHER -> 0)
         + (IF w.force_expand THEN 0 ELSE 1)

\* a bound on the turns left: bytes first, then reads, then Pending <= 7
Variant == 8 * (Unread + Held) + 8 * Unread + Pending

\* a turn of the loop changes the state of the walk
TurnActs ==
    wpc = "loop" =>
        \/ Yielded.read # <<>>
        \/ Yielded.gen # gen
        \/ ~w.force_expand /\ (Matched => Marker.e > 0)

\* C30: the walker returns or raises on every source, for every stream_bytes
\* and either encoding.  A turn of its loop takes a matched marker, grows
\* the buffer by a read that is not empty, is the last turn after an empty
\* read, or finds no marker in a buffer it did not extend and makes the next
\* turn read; the collector goes on only by reading or by dropping a comment
\* and leaves at a terminator or after an empty read; every turn of either
\* loop that does not end the walk lowers a natural number
C30_WalkTerminates ==
    /\ [][Resumed => (Matched \/ Grown \/ LastTurn \/ Deferred)]_hvars
    /\ [][(Resumed /\ Matched) =>
              \/ wpc' \in {"error", "collect"}
              \/ Len(w'.remaining_bytes) < Len(Yielded.buffer)]_hvars
    /\ []((wpc = "loop" /\ gen = "run" /\ w.force_expand) => Yielded.read # <<>>)
    /\ [][(wpc = "collect" /\ wpc' = "collect") =>
              \/ fpos' > fpos
              \/ Unread' + Held' < Unread + Held
              \/ col'.at_end_of_file = <<>>]_hvars
    /\ [][(wpc = "collect" /\ wpc' # "collect") =>
              (AtTerminator \/ AfterEmptyRead)]_hvars
    /\ [](TurnActs /\ Variant \in Nat)
    /\ [][(wpc \in {"loop", "collect"} /\ wpc' \in {"loop", "collect"}) =>
              (Variant' < Variant)]_hvars

\* a walk that began on 40 bytes without a marker, went on byte by byte and
\* returned at the end of the file
C30_Witness ==
    /\ wpc = "done" /\ stream_bytes = 1
    /\ Len(w.given) >= rescan_overlap
    /\ Search(1, w.given, 0).s = NoneInt
    /\ fpos = Len(source) /\ Len(reads) > 3

\* a group was opened earlier in the walk
GroupSeen == DeclsOf("group") # <<>>

\* C31: inside a group max_items >= 1 and 1 <= item_count <= max_items; at
\* top level after a group was left both counters are 0 (before any group
\* they are 1 and 0), so a group marker met at top level is never refused
\* for missing items
C31_GroupCounters ==
    /\ [](w.group_level = 1 =>
             /\ w.max_items >= 1
             /\ 1 <= w.item_count /\ w.item_count <= w.max_items)
    /\ []((wrun > 0 /\ w.group_level = 0) =>
             /\ w.max_items = 0
             /\ w.item_count = IF GroupSeen THEN 0 ELSE 1)
    /\ [][(Resumed /\ w.group_level = 1 /\ Yielded.gen # "done"
                   /\ Entered.group_level = 0) =>
              (Entered.item_count = 0 /\ Entered.max_items = 0)]_hvars
    /\ [][(AtMarker /\ MarkerInfo.type = "group" /\ Entered.group_level = 0) =>
              w'.error # "items missing"]_hvars

\* a second group was opened after the first one was supplied and left
C31_Witness ==
    /\ Len(DeclsOf("group")) = 2
    /\ w.group_level = 1 /\ w.item_count = 1 /\ w.max_items >= 1
    /\ w.error = ""

\* the buffer the call about to be made searches: what the call before left
\* over and what line 211 reads
Scanned ==
    LET sb == Len(payloads[Len(loaded) + 1])
        read_bytes == sb + rescan_overlap - Len(residual)
    IN  residual \o (IF read_bytes > 0 THEN FileRead(source, fpos, read_bytes)
                     ELSE <<>>)
Found == Search(0, Scanned, 0)
Calls == Len(loaded) < Len(payloads) /\ Len(loaded') = Len(loaded) + 1

\* C32: when the call finds a marker in its buffer, the data it returns, the
\* marker and the remainder it returns make up the buffer in that order, the
\* remainder being empty when the marker ends the buffer
C32_MarkerPartitionsBuffer ==
    [][(Calls /\ Found.s # NoneInt) =>
          LET r == loaded'[Len(loaded')]
              marker == Slice(Scanned, Found.s, Found.e)
          IN  /\ r.data = Slice(Scanned, 0, Found.s)
              /\ r.remainder = Slice(Scanned, Found.e, Len(Scanned))
              /\ r.data \o marker \o r.remainder = Scanned
              /\ Found.e = Len(Scanned) => r.remainder = <<>>]_hvars

\* the loop of the filename-based get_header has the whole file in data and
\* no match
FileExhausted == pc = "scan" /\ m = NoneInt /\ fpos = Len(source)

\* C33: the filename-based get_header returns on every file of the given
\* format: a pass of its loop reads at least one byte further into the file,
\* and a file without delimiter is returned whole as the header
C33_FileHeaderTerminates ==
    /\ [][(pc = "scan" /\ m = NoneInt) => fpos' > fpos]_hvars
    /\ [](FileSearch(DelimiterOf(file_format), source, 0) = NoneInt =>
             /\ ~FileExhausted
             /\ pc = "done" => result.header = source)

\* at the end of a file without delimiter a pass of the loop reads nothing
\* and leaves data, m and the file position as they are
C33_ExhaustedForever ==
    [][FileExhausted =>
          (FileExhausted' /\ data' = data /\ Len(reads') = Len(reads) + 1
           /\ reads'[Len(reads')][2] = 0)]_hvars

(***************************************************************************)
(* Properties of get_header and detect_format                              *)
(***************************************************************************)
Returned == pc = "done" /\ result.status = "ok"

\* the single leftmost search for the stream delimiter over the whole file
WholeSearch == Search(DelimiterOf(file_format), source, 0)

\* offset in the file at which the returned remainder starts
RemainderOffset == fpos - Len(result.remainder)

BytesRead == Slice(source, 0, fpos)

ZeroReads == {i \in 1..Len(reads) : reads[i][2] = 0}

\* C1: the header and the remainder offset get_header returns are those of a
\* single leftmost search for the delimiter over the whole source, whatever
\* header_bytes is
C1_ChunkSizeIndependent ==
    Returned =>
        IF WholeSearch.s = NoneInt
        THEN result.header = source /\ result.remainder = <<>>
        ELSE /\ result.found
             /\ result.header = Slice(source, 0, WholeSearch.s)
             /\ RemainderOffset = WholeSearch.s

\* C4: on a match, header and remainder split the bytes read so far at the
\* start of the match: nothing lost, duplicated or reordered, no byte of the
\* delimiter in the header, the remainder starting with the delimiter
C4_HeaderRemainderPartition ==
    (Returned /\ result.found) =>
        /\ result.header \o result.remainder = BytesRead
        /\ Len(result.header) = m
        /\ MatchAt(DelimiterOf(result.format), result.remainder, 0).s = 0

C4_Witness ==
    /\ Returned /\ result.found
    /\ Len(reads) > 2
    /\ result.header # <<>>
    /\ Len(result.remainder) > 4

\* the first stream of an AmiraMesh file is introduced by a line '@1'
FirstAt == SkipWs(source, Search(0, source, 0).s)
FirstStreamIsLine1 ==
    /\ file_format = "AmiraMesh"
    /\ Search(0, source, 0).s # NoneInt
    /\ Search(0, source, 0).stream = <<"1">>
    /\ FirstAt > 0
    /\ source[FirstAt] = "\n"
    /\ source[FirstAt + 3] = "\n"

\* C5 as stated: the header excludes everything from '@1' onward and the
\* remainder starts at the '@' of the marker
C5_RemainderStartsAtMarker ==
    (Returned /\ FirstStreamIsLine1) =>
        /\ Len(result.header) <= FirstAt
        /\ result.header = Slice(source, 0, Len(result.header))
        /\ RemainderOffset = FirstAt
        /\ result.remainder # <<>> /\ Head(result.remainder) = "@"

\* C5 amended: the header ends before the line break in front of '@1' and
\* the remainder starts at that line break; only whitespace separates its
\* first byte from the '@' of the marker
C5_RemainderStartsAtLineBreak ==
    (Returned /\ FirstStreamIsLine1) =>
        /\ result.found
        /\ Len(result.header) < FirstAt
        /\ result.header = Slice(source, 0, Len(result.header))
        /\ RemainderOffset = Len(result.header)
        /\ Head(result.remainder) = "\n"
        /\ RemainderOffset + SkipWs(result.remainder, 0) = FirstAt

C5_Witness ==
    /\ Returned /\ FirstStreamIsLine1
    /\ Len(reads) > 2
    /\ result.remainder[2] = "@"

\* C6: a file of a recognised format without stream delimiter makes get_header
\* return at its first zero-length read, the whole buffer as the header and an
\* empty remainder, without error
NoDelimiter == ~IsUndefined(file_format) /\ WholeSearch.s = NoneInt
\* (every pass of the loop either reads at least one byte further into the
\* finite file or is the zero-length read that returns)
C6_NoDelimiterTerminates ==
    /\ []((pc \in {"scan", "done"} /\ NoDelimiter) =>
            /\ m = NoneInt
            /\ pc = "scan" => (ZeroReads = {} /\ ENABLED ScanMore)
            /\ pc = "done" =>
                  /\ result.status = "ok" /\ ~result.found
                  /\ result.header = source
                  /\ result.remainder = <<>>
                  /\ ZeroReads = {Len(reads)})
    /\ [][(pc = "scan" /\ NoDelimiter) =>
            \/ pc' = "scan" /\ fpos' > fpos /\ fpos' <= Len(source)
            \/ pc' = "done" /\ fpos' = Len(source)]_hvars

C6_Witness ==
    /\ Returned /\ NoDelimiter
    /\ Len(reads) > 3
    /\ result.header = source

\* C7: an Undefined format makes get_header raise ValueError with no
\* delimiter search and no read beyond the detector's
C7_UndefinedFailsFast ==
    (pc \in {"select", "scan", "done", "error"} /\ file_format = "Undefined") =>
        /\ pc \in {"select", "error"}
        /\ searches = <<>>
        /\ Len(reads) = 1
        /\ pc = "error" => result.status = "ValueError"

C7_Witness ==
    /\ pc = "error"
    /\ result.status = "ValueError"
    /\ fpos < Len(source)

\* the bytes detect_format matched the format pattern against
Sniffed == Slice(source, 0, reads[1][2])

\* the first non-blank token of d, after an optional '#' and whitespace, is
\* name, followed by whitespace or the end of d
NamedOptionalHash(d, name) ==
    \E i \in 0..Len(d) :
        /\ \A x \in 1..i : d[x] \in Space
        /\ i < Len(d) => d[i + 1] \notin Space
        /\ \/ HasAt(d, i, name)
              /\ (i + Len(name) = Len(d) \/ d[i + Len(name) + 1] \in Space)
           \/ /\ i < Len(d) /\ d[i + 1] = "#"
              /\ \E j \in (i + 1)..Len(d) :
                    /\ \A x \in (i + 2)..j : d[x] \in Space
                    /\ HasAt(d, j, name)
                    /\ (j + Len(name) = Len(d) \/ d[j + Len(name) + 1] \in Space)

\* d is whitespace, '#', whitespace, name, followed by whitespace or the end of d
NamedAfterHash(d, name) ==
    \E i \in 0..(Len(d) - 1) :
        /\ \A x \in 1..i : d[x] \in Space
        /\ d[i + 1] = "#"
        /\ \E j \in (i + 1)..Len(d) :
              /\ \A x \in (i + 2)..j : d[x] \in Space
              /\ HasAt(d, j, name)
              /\ (j + Len(name) = Len(d) \/ d[j + Len(name) + 1] \in Space)

\* C8 as stated: the '#' in front of the format name is optional
C8_FormatOptionalHash ==
    pc = "select" =>
        /\ file_format = "AmiraMesh" <=> NamedOptionalHash(Sniffed, K_AmiraMesh)
        /\ file_format = "HyperSurface" <=> NamedOptionalHash(Sniffed, K_HyperSurface)
        /\ file_format \in {"AmiraMesh", "HyperSurface", "Undefined"}

\* C8 amended: the format is AmiraMesh or HyperSurface exactly when the
\* sniffed bytes are optional whitespace, a '#', optional whitespace and that
\* name followed by whitespace or the end of the sniffed bytes; Undefined
\* otherwise
C8_FormatRequiresHash ==
    pc = "select" =>
        /\ file_format = "AmiraMesh" <=> NamedAfterHash(Sniffed, K_AmiraMesh)
        /\ file_format = "HyperSurface" <=> NamedAfterHash(Sniffed, K_HyperSurface)
        /\ file_format \in {"AmiraMesh", "HyperSurface", "Undefined"}

C8_Witness ==
    /\ pc = "select"
    /\ file_format = "AmiraMesh"
    /\ Len(source) > Len(Sniffed)
    /\ source[Len(Sniffed) + 1] = "X"

\* C9: detect_format reads once, asking for max(format_bytes, 50) bytes,
\* hands back exactly the bytes read and leaves the position right after
\* them; get_header goes on from there and reads no byte twice
C9_DetectReadsOnce ==
    /\ pc = "select" =>
          /\ Len(reads) = 1
          /\ reads[1][1] = Max(Max(header_bytes, rescan_overlap), format_bytes_min)
          /\ reads[1][2] = Len(data)
          /\ fpos = Len(data)
    /\ pc \in {"select", "scan", "done", "error"} => data = BytesRead

C9_Witness ==
    /\ pc = "scan"
    /\ Len(reads) > 1
    /\ reads[1] = <<format_bytes_min, format_bytes_min>>
    /\ header_bytes = 1

====
